---- MODULE Spec2Model ----
(***************************************************************************)
(* Model of the sensor-data pipeline: DataValidator (validator.py),        *)
(* DataPipeline.process_file (main.py) and DataAnalyzer.analyze_data       *)
(* (analyzer.py).  A table is a sequence of rows; a row keeps its original *)
(* index and one cell per column.  A cell is null, a number, a text or a   *)
(* parsed time.                                                            *)
(***************************************************************************)
EXTENDS Integers, Sequences, FiniteSets, TLC

\* ------------------------------------------------------------------ bounds
MaxRows == 3
\* the rows of a table given to transform_data
MaxTransformRows == 3
\* the length of a column given to one step of the transformer
MaxSeriesLen == 8
\* the rows of a table given to detect_anomalies
MaxReadings == 11
\* the rows of a table given to calculate_data_quality_metrics
MaxQualityRows == 10
\* the length of a column with missing runs given to transform_data
MaxGapLen == 12

\* ------------------------------------------------- configuration (config.py)
TEMP_MIN == -50
TEMP_MAX == 60
HUMIDITY_MIN == 0
HUMIDITY_MAX == 100
AIR_QUALITY_MIN == 0
AIR_QUALITY_MAX == 500
NOISE_MIN == 0
NOISE_MAX == 130
LIGHTING_MIN == 0
LIGHTING_MAX == 100000
CROWD_DENSITY_MIN == 0
CROWD_DENSITY_MAX == 1000
STRESS_LEVEL_MIN == 0
STRESS_LEVEL_MAX == 100
SLEEP_HOURS_MIN == 0
SLEEP_HOURS_MAX == 24
MOOD_SCORE_MIN == 0
MOOD_SCORE_MAX == 5
MENTAL_HEALTH_STATUS_MIN == 0
MENTAL_HEALTH_STATUS_MAX == 1

\* ------------------------------------------------------------------- cells
\* a number is the fraction n / d in lowest terms with d > 0
Null == [k |-> "null", n |-> 0, d |-> 1, s |-> ""]
Num(x) == [k |-> "num", n |-> x, d |-> 1, s |-> ""]
Text(t) == [k |-> "text", n |-> 0, d |-> 1, s |-> t]
\* a parsed timestamp, in hours since 2024-01-01 00:00
Time(h) == [k |-> "time", n |-> h, d |-> 1, s |-> ""]

\* pandas isna(): NaN, None and NaT are the missing values
IsNa(cell) == cell.k = "null"

\* Series.astype(str) as the comparisons of validate_required_fields read it:
\* a missing value prints as 'nan', a text is itself, a number or a time
\* prints as a text that is neither '' nor 'nan'
AsStr(cell) ==
  CASE cell.k = "null" -> "nan"
    [] cell.k = "text" -> cell.s
    [] cell.k = "num" -> "number"
    [] OTHER -> "datetime"

\* pd.to_datetime(value, errors='coerce'): a parseable text becomes a time,
\* anything else becomes NaT
ToDatetime(cell) ==
  CASE cell.k = "time" -> cell
    [] cell.k = "text" /\ cell.s = "2024-01-01 01:00" -> Time(1)
    [] cell.k = "text" /\ cell.s = "2024-01-01 02:00" -> Time(2)
    [] cell.k = "text" /\ cell.s = "2024-01-02 01:00" -> Time(25)
    [] OTHER -> Null

\* pd.to_numeric(value, errors='coerce')
ToNumeric(cell) == IF cell.k = "num" THEN cell ELSE Null

\* ------------------------------------------------------ float arithmetic
\* A float is a number cell or NaN (the null cell); the arithmetic is exact.
Abs(x) == IF x < 0 THEN -x ELSE x

RECURSIVE Gcd(_, _)
Gcd(a, b) == IF b = 0 THEN a ELSE Gcd(b, a % b)

\* the float num / den, den # 0
Frac(num, den) ==
  LET g == Gcd(Abs(num), Abs(den))
      sign == IF den < 0 THEN -1 ELSE 1
  IN [k |-> "num", n |-> sign * (num \div g), d |-> sign * (den \div g), s |-> ""]

NaN == Null

\* a + b, a - b, a * b: NaN when an operand is NaN
FAdd(a, b) == IF IsNa(a) \/ IsNa(b) THEN NaN ELSE Frac(a.n * b.d + b.n * a.d, a.d * b.d)
FSub(a, b) == IF IsNa(a) \/ IsNa(b) THEN NaN ELSE Frac(a.n * b.d - b.n * a.d, a.d * b.d)
FMul(a, b) == IF IsNa(a) \/ IsNa(b) THEN NaN ELSE Frac(a.n * b.n, a.d * b.d)

\* a / b for numpy floats: 0 / 0 is NaN; no other division by zero is made
FDiv(a, b) ==
  IF IsNa(a) \/ IsNa(b) \/ b.n = 0 THEN NaN ELSE Frac(a.n * b.d, a.d * b.n)

\* a < b, a <= b: every comparison with NaN is false
FLt(a, b) == ~IsNa(a) /\ ~IsNa(b) /\ a.n * b.d < b.n * a.d
FLe(a, b) == ~IsNa(a) /\ ~IsNa(b) /\ a.n * b.d <= b.n * a.d

\* abs(a)
FAbs(a) == IF IsNa(a) THEN NaN ELSE Frac(Abs(a.n), a.d)

\* the builtin min(a, b) and max(a, b): the first argument is kept unless the
\* second compares strictly smaller (larger), so a NaN in second place is
\* never taken and a NaN in first place is never replaced
PyMin(a, b) == IF FLt(b, a) THEN b ELSE a
PyMax(a, b) == IF FLt(a, b) THEN b ELSE a

\* ----------------------------------------------------------------- columns
\* a list of required columns that leaves the label out
required_columns_unlabelled ==
  << "location_id", "timestamp", "stress_level", "sleep_hours", "mood_score",
     "noise_level_db", "lighting_lux", "crowd_density", "temperature_celsius" >>

\* DataValidator.required_columns
required_columns ==
  << "location_id", "timestamp", "stress_level", "sleep_hours", "mood_score",
     "mental_health_status", "noise_level_db", "lighting_lux", "crowd_density",
     "temperature_celsius" >>

env_columns ==
  << "temperature_celsius", "humidity_percent", "air_quality_index",
     "noise_level_db", "lighting_lux" >>

\* DataValidator.validation_rules, in the insertion order of the dictionary
validation_rules ==
  << [column |-> "temperature_celsius", min |-> TEMP_MIN, max |-> TEMP_MAX],
     [column |-> "humidity_percent", min |-> HUMIDITY_MIN, max |-> HUMIDITY_MAX],
     [column |-> "air_quality_index", min |-> AIR_QUALITY_MIN, max |-> AIR_QUALITY_MAX],
     [column |-> "noise_level_db", min |-> NOISE_MIN, max |-> NOISE_MAX],
     [column |-> "lighting_lux", min |-> LIGHTING_MIN, max |-> LIGHTING_MAX],
     [column |-> "crowd_density", min |-> CROWD_DENSITY_MIN, max |-> CROWD_DENSITY_MAX],
     [column |-> "stress_level", min |-> STRESS_LEVEL_MIN, max |-> STRESS_LEVEL_MAX],
     [column |-> "sleep_hours", min |-> SLEEP_HOURS_MIN, max |-> SLEEP_HOURS_MAX],
     [column |-> "mood_score", min |-> MOOD_SCORE_MIN, max |-> MOOD_SCORE_MAX],
     [column |-> "mental_health_status", min |-> MENTAL_HEALTH_STATUS_MIN,
      max |-> MENTAL_HEALTH_STATUS_MAX] >>

\* validate_data_types: the columns it coerces to numbers
numeric_columns == << "temperature", "humidity", "pressure" >>

\* DataAnalyzer.metric_columns
metric_columns ==
  << "temperature_celsius", "humidity_percent", "air_quality_index",
     "noise_level_db", "lighting_lux", "crowd_density",
     "stress_level", "sleep_hours", "mood_score" >>

Range(seq) == {seq[i] : i \in 1..Len(seq)}

AllColumns == Range(required_columns) \cup Range(env_columns)

\* the headers of the input files considered
ColumnSets ==
  { AllColumns,
    AllColumns \ {"mental_health_status"},
    AllColumns \ {"humidity_percent", "air_quality_index"},
    AllColumns \ Range(env_columns) }

\* -------------------------------------------------------------------- rows
GoodRow ==
  [ location_id |-> Text("A"), timestamp |-> Text("2024-01-01 01:00"),
    temperature_celsius |-> Num(20), humidity_percent |-> Num(50),
    air_quality_index |-> Num(100), noise_level_db |-> Num(40),
    lighting_lux |-> Num(300), crowd_density |-> Num(10),
    stress_level |-> Num(50), sleep_hours |-> Num(7), mood_score |-> Num(3),
    mental_health_status |-> Num(0) ]

\* a valid row whose values sit on the bounds of their rules, one optional
\* metric missing
BoundaryRow ==
  [ GoodRow EXCEPT !.location_id = Text("B"),
                   !.timestamp = Text("2024-01-01 02:00"),
                   !.temperature_celsius = Num(TEMP_MAX),
                   !.humidity_percent = Num(HUMIDITY_MIN),
                   !.air_quality_index = Null,
                   !.stress_level = Num(STRESS_LEVEL_MIN),
                   !.mood_score = Num(MOOD_SCORE_MAX),
                   !.mental_health_status = Num(MENTAL_HEALTH_STATUS_MAX) ]

AllNullRow == [c \in AllColumns |-> Null]

InputRows ==
  { GoodRow,
    BoundaryRow,
    AllNullRow,
    [GoodRow EXCEPT !.stress_level = Null],
    [GoodRow EXCEPT !.location_id = Text("nan")],
    [GoodRow EXCEPT !.location_id = Text("")],
    [GoodRow EXCEPT !.location_id = Null],
    [GoodRow EXCEPT !.timestamp = Text("not a date")],
    [GoodRow EXCEPT !.temperature_celsius = Num(TEMP_MAX + 1),
                    !.humidity_percent = Num(HUMIDITY_MIN - 1),
                    !.timestamp = Text("2024-01-02 01:00")],
    [GoodRow EXCEPT !.humidity_percent = Text("abc")] }

\* --------------------------------------------------------- table helpers
\* len(df) == 0 or no columns
Empty(t, cols) == Len(t) = 0 \/ cols = {}

RECURSIVE SelectRows(_, _)
\* df[mask]: the rows at the positions of keep, in their order
SelectRows(t, keep) ==
  IF t = << >> THEN << >>
  ELSE LET n == Len(t)
           front == SelectRows(SubSeq(t, 1, n - 1), keep)
       IN IF n \in keep THEN Append(front, t[n]) ELSE front

\* df.dropna(how='all')
DropAllNullRows(t, cols) ==
  SelectRows(t, {i \in 1..Len(t) : ~(\A c \in cols : IsNa(t[i].cells[c]))})

\* one violation description; the texts are f-strings of column names and counts
Err(kind, col, n, m, cols) == [kind |-> kind, col |-> col, n |-> n, m |-> m, cols |-> cols]

\* ------------------------------------------------------------ DataValidator
\* validate_file_structure: (valid, errors)
ValidateFileStructure(t, cols) ==
  IF Empty(t, cols)
  THEN [valid |-> FALSE, errors |-> << Err("File is empty", "", 0, 0, << >>) >>]
  ELSE LET missing_columns == SelectSeq(required_columns, LAMBDA c : c \notin cols)
           e1 == IF missing_columns # << >>
                 THEN << Err("Missing required columns", "", 0, 0, missing_columns) >>
                 ELSE << >>
           has_env_data == \E i \in 1..Len(env_columns) : env_columns[i] \in cols
           e2 == IF ~has_env_data
                 THEN << Err("No environmental data columns found", "", 0, 0, << >>) >>
                 ELSE << >>
       IN [valid |-> (e1 \o e2 = << >>), errors |-> e1 \o e2]

\* the conversions validate_data_types applies to one row
TypedCells(cells, cols) ==
  [c \in DOMAIN cells |->
     CASE c = "location_id" /\ c \in cols -> Text(AsStr(cells[c]))
       [] c = "timestamp" /\ c \in cols -> ToDatetime(cells[c])
       [] c \in Range(numeric_columns) /\ c \in cols -> ToNumeric(cells[c])
       [] OTHER -> cells[c]]

\* validate_data_types: (typed table, errors)
ValidateDataTypes(t, cols) ==
  LET typed == [i \in 1..Len(t) |-> [t[i] EXCEPT !.cells = TypedCells(t[i].cells, cols)]]
      invalid_timestamps ==
        IF "timestamp" \in cols
        THEN Cardinality({i \in 1..Len(t) : IsNa(typed[i].cells["timestamp"])})
        ELSE 0
  IN [table |-> typed,
      errors |-> IF invalid_timestamps > 0
                 THEN << Err("Found invalid timestamp formats", "timestamp",
                             invalid_timestamps, 0, << >>) >>
                 ELSE << >>]

\* col_invalid of validate_required_fields for one cell of a required column
ColInvalid(c, cell) ==
  IF c = "location_id"
  THEN IsNa(cell) \/ AsStr(cell) = "" \/ AsStr(cell) = "nan"
  ELSE IsNa(cell)

RECURSIVE RequiredScan(_, _, _, _, _)
\* the loop over required_columns: the invalid mask (a set of positions) and
\* the errors, column by column
RequiredScan(t, cols, j, mask, errors) ==
  IF j > Len(required_columns) THEN [mask |-> mask, errors |-> errors]
  ELSE LET c == required_columns[j] IN
       IF c \in cols
       THEN LET col_invalid == {i \in 1..Len(t) : ColInvalid(c, t[i].cells[c])}
                invalid_count == Cardinality(col_invalid)
            IN RequiredScan(t, cols, j + 1, mask \cup col_invalid,
                 IF invalid_count > 0
                 THEN Append(errors, Err("Found rows with missing", c, invalid_count, 0, << >>))
                 ELSE errors)
       ELSE RequiredScan(t, cols, j + 1, 1..Len(t),
              Append(errors, Err("Required column is missing from dataset", c, 0, 0, << >>)))

\* a check that marks a row when any of its environmental readings is missing
ValidateRequiredFieldsAnyEnvNull(t, cols) ==
  LET scan == RequiredScan(t, cols, 1, {}, << >>)
      available_env_cols == SelectSeq(env_columns, LAMBDA c : c \in cols)
      all_env_null ==
        {i \in (1..Len(t)) \ scan.mask :
           \E j \in 1..Len(available_env_cols) : IsNa(t[i].cells[available_env_cols[j]])}
      check_env == available_env_cols # << >> /\ scan.mask # 1..Len(t)
      invalid_mask == IF check_env THEN scan.mask \cup all_env_null ELSE scan.mask
      errors == IF check_env /\ all_env_null # {}
                THEN Append(scan.errors,
                       Err("Found rows with all environmental readings missing", "",
                           Cardinality(all_env_null), 0, << >>))
                ELSE scan.errors
  IN [valid |-> SelectRows(t, (1..Len(t)) \ invalid_mask),
      invalid |-> SelectRows(t, invalid_mask),
      errors |-> errors]

\* validate_required_fields: (valid rows, invalid rows, errors)
ValidateRequiredFields(t, cols) ==
  LET scan == RequiredScan(t, cols, 1, {}, << >>)
      available_env_cols == SelectSeq(env_columns, LAMBDA c : c \in cols)
      all_env_null ==
        {i \in (1..Len(t)) \ scan.mask :
           \A j \in 1..Len(available_env_cols) : IsNa(t[i].cells[available_env_cols[j]])}
      check_env == available_env_cols # << >> /\ scan.mask # 1..Len(t)
      invalid_mask == IF check_env THEN scan.mask \cup all_env_null ELSE scan.mask
      errors == IF check_env /\ all_env_null # {}
                THEN Append(scan.errors,
                       Err("Found rows with all environmental readings missing", "",
                           Cardinality(all_env_null), 0, << >>))
                ELSE scan.errors
  IN [valid |-> SelectRows(t, (1..Len(t)) \ invalid_mask),
      invalid |-> SelectRows(t, invalid_mask),
      errors |-> errors]

\* a range check that also rejects the upper bound itself
OutOfRangeExclusive(cell, rule) ==
  ~IsNa(cell) /\ (cell.n < rule.min \/ cell.n >= rule.max)

\* (df[column].notna()) & ((df[column] < min) | (df[column] > max)) for one cell
OutOfRange(cell, rule) ==
  ~IsNa(cell) /\ (cell.n < rule.min \/ cell.n > rule.max)

\* comparing a column that holds a text with a number raises TypeError
CompareRaises(t, c) == \E i \in 1..Len(t) : t[i].cells[c].k \notin {"null", "num"}

RECURSIVE RangeScan(_, _, _, _, _)
\* the loop over validation_rules: the union of the out_of_range masks and the errors
RangeScan(t, cols, j, mask, errors) ==
  IF j > Len(validation_rules) THEN [raised |-> FALSE, mask |-> mask, errors |-> errors]
  ELSE LET rule == validation_rules[j] IN
       IF rule.column \notin cols THEN RangeScan(t, cols, j + 1, mask, errors)
       ELSE IF CompareRaises(t, rule.column)
            THEN [raised |-> TRUE, mask |-> mask, errors |-> errors]
            ELSE LET out_of_range ==
                       {i \in 1..Len(t) : OutOfRange(t[i].cells[rule.column], rule)}
                 IN RangeScan(t, cols, j + 1, mask \cup out_of_range,
                      IF out_of_range # {}
                      THEN Append(errors, Err("Found readings out of range", rule.column,
                                              Cardinality(out_of_range), 0, << >>))
                      ELSE errors)

\* validate_sensor_ranges: (valid rows, invalid rows, errors), or the exception
ValidateSensorRanges(t, cols) ==
  LET scan == RangeScan(t, cols, 1, {}, << >>)
  IN [raised |-> scan.raised,
      valid |-> SelectRows(t, (1..Len(t)) \ scan.mask),
      invalid |-> SelectRows(t, scan.mask),
      errors |-> scan.errors]

\* the outcomes of the file system during quarantine_file
FsOutcomes == {"ok", "move_fails", "log_fails"}

NoQuarantine == [called |-> FALSE, errors |-> << >>, moved |-> FALSE,
                 manifest_written |-> FALSE, manifest |-> << >>]

\* quarantine_file: shutil.move, then the error log with one line per error;
\* an exception of either is caught and logged
QuarantineFile(errors, fs) ==
  [called |-> TRUE, errors |-> errors,
   moved |-> (fs # "move_fails"),
   manifest_written |-> (fs = "ok"),
   manifest |-> IF fs = "ok" THEN errors ELSE << >>]

NoInvalidLog == [written |-> FALSE, rows |-> 0, errors |-> << >>]

\* log_invalid_data: appends the errors and the count of invalid rows to the log
LogInvalidData(invalid, all_errors) ==
  IF invalid = << >> THEN NoInvalidLog
  ELSE [written |-> TRUE, rows |-> Len(invalid), errors |-> all_errors]

NoValidation ==
  [status |-> "none", table |-> << >>, accepted |-> FALSE, steps |-> << >>,
   all_errors |-> << >>, quarantine |-> NoQuarantine, invalid_log |-> NoInvalidLog]

\* total_rows of the summary of validate_data
TotalRows(t, cleaned) == Len(t)

\* a threshold of all the rows instead of half of them
TooManyInvalidOfAll(invalid_rows, total_rows) == invalid_rows > total_rows

\* invalid_rows > (total_rows * 0.5)
TooManyInvalid(invalid_rows, total_rows) == 2 * invalid_rows > total_rows

\* validate_data: the returned (table, accepted) or the exception, the steps
\* that ran, the accumulated errors and the effects on the file system
ValidateData(t, cols, fs) ==
  LET df_cleaned == DropAllNullRows(t, cols)
      structure == ValidateFileStructure(df_cleaned, cols)
      typed == ValidateDataTypes(df_cleaned, cols)
      required == ValidateRequiredFields(typed.table, cols)
      ranges == ValidateSensorRanges(required.valid, cols)
      all_errors == structure.errors \o typed.errors \o required.errors \o ranges.errors
      total_rows == TotalRows(t, df_cleaned)
      valid_rows == Len(ranges.valid)
      invalid_rows == total_rows - valid_rows
  IN
  IF Empty(df_cleaned, cols)
  THEN [NoValidation EXCEPT !.status = "returned", !.steps = << "clean" >>]
  ELSE IF ~structure.valid
  THEN [NoValidation EXCEPT !.status = "returned",
                            !.steps = << "clean", "structure" >>,
                            !.all_errors = structure.errors,
                            !.quarantine = QuarantineFile(structure.errors, fs)]
  ELSE IF ranges.raised
  THEN [NoValidation EXCEPT !.status = "raised",
                            !.steps = << "clean", "structure", "types", "required", "ranges" >>,
                            !.all_errors = structure.errors \o typed.errors \o required.errors]
  ELSE IF TooManyInvalid(invalid_rows, total_rows)
  THEN [status |-> "returned", table |-> << >>, accepted |-> FALSE,
        steps |-> << "clean", "structure", "types", "required", "ranges" >>,
        all_errors |-> all_errors,
        quarantine |-> QuarantineFile(
           << Err("More than 50% of rows invalid", "", invalid_rows, total_rows, << >>) >>, fs),
        invalid_log |-> LogInvalidData(required.invalid \o ranges.invalid, all_errors)]
  ELSE [status |-> "returned", table |-> ranges.valid, accepted |-> (Len(ranges.valid) > 0),
        steps |-> << "clean", "structure", "types", "required", "ranges" >>,
        all_errors |-> all_errors,
        quarantine |-> NoQuarantine,
        invalid_log |-> LogInvalidData(required.invalid \o ranges.invalid, all_errors)]

\* ------------------------------------------------------------- DataAnalyzer
\* a sub-analysis returns its value or raises
Returned(v) == [raised |-> FALSE, exc |-> "", value |-> v]
Raised(e, default) == [raised |-> TRUE, exc |-> e, value |-> default]

ANOMALY_MIN_SAMPLES == 10

\* the texts of location_id in ascending order, the order in which groupby
\* enumerates its groups
LocationOrder == << "", "A", "B", "nan" >>

\* [col for col in self.metric_columns if col in df.columns]
AvailableMetrics(cols) == SelectSeq(metric_columns, LAMBDA c : c \in cols)

\* df[metric].dropna(), as the cells in row order
DropNa(t, c) ==
  LET cells == [i \in 1..Len(t) |-> t[i].cells[c]]
  IN SelectSeq(cells, LAMBDA x : ~IsNa(x))

\* arithmetic on a column that holds a text raises
HasText(cells) == \E i \in 1..Len(cells) : cells[i].k \notin {"null", "num"}

MinOf(S) == CHOOSE x \in S : \A y \in S : x <= y
MaxOf(S) == CHOOSE x \in S : \A y \in S : x >= y

RECURSIVE IntSum(_)
\* the sum of a sequence of integers
IntSum(ns) == IF ns = << >> THEN 0 ELSE Head(ns) + IntSum(Tail(ns))

RECURSIVE IntProduct(_)
IntProduct(ns) == IF ns = << >> THEN 1 ELSE Head(ns) * IntProduct(Tail(ns))

\* the numerators of a sequence of floats over a common denominator
Numerators(xs) ==
  LET den == IntProduct([i \in 1..Len(xs) |-> xs[i].d])
  IN [den |-> den, nums |-> [i \in 1..Len(xs) |-> xs[i].n * (den \div xs[i].d)]]

\* Series.mean(): NaN without samples
Mean(xs) ==
  LET c == Numerators(xs)
  IN IF xs = << >> THEN NaN ELSE Frac(IntSum(c.nums), c.den * Len(xs))

\* a variance that divides the squared deviations by n
VarPopulation(xs) ==
  LET n == Len(xs)
      c == Numerators(xs)
      sum == IntSum(c.nums)
      squares == IntSum([i \in 1..n |-> c.nums[i] * c.nums[i]])
  IN IF n < 2 THEN NaN
     ELSE Frac(n * squares - sum * sum, c.den * c.den * n * n)

\* Series.var() with the default ddof=1: the squared deviations from the mean
\* summed and divided by n - 1; NaN with fewer than two samples
Var(xs) ==
  LET n == Len(xs)
      c == Numerators(xs)
      sum == IntSum(c.nums)
      squares == IntSum([i \in 1..n |-> c.nums[i] * c.nums[i]])
  IN IF n < 2 THEN NaN
     ELSE Frac(n * squares - sum * sum, c.den * c.den * n * (n - 1))

\* the square root of a float, kept as its radicand unless it is zero
Sqrt(x) ==
  IF IsNa(x) THEN NaN
  ELSE IF x.n = 0 THEN Num(0)
  ELSE [k |-> "sqrt", n |-> x.n, d |-> x.d, s |-> ""]

\* Series.std() with the default ddof=1
Std(xs) == Sqrt(Var(xs))

\* empty_stats
EmptyStats(metric) ==
  [metric |-> metric, count |-> 0, min |-> 0, max |-> 0, std |-> Num(0), variance |-> Num(0)]

\* an entry that takes std and variance from pandas whatever the sample count
MetricStatsUnguarded(metric, metric_data) ==
  IF Len(metric_data) > 0
  THEN LET ns == {metric_data[i].n : i \in 1..Len(metric_data)}
       IN [metric |-> metric, count |-> Len(metric_data), min |-> MinOf(ns), max |-> MaxOf(ns),
           std |-> Std(metric_data), variance |-> Var(metric_data)]
  ELSE EmptyStats(metric)

\* the entry of one metric of one group: count, min, max, std and variance of
\* its samples
MetricStats(metric, metric_data) ==
  IF Len(metric_data) > 0
  THEN LET ns == {metric_data[i].n : i \in 1..Len(metric_data)}
       IN [metric |-> metric, count |-> Len(metric_data), min |-> MinOf(ns), max |-> MaxOf(ns),
           std |-> IF Len(metric_data) > 1 THEN Std(metric_data) ELSE Num(0),
           variance |-> IF Len(metric_data) > 1 THEN Var(metric_data) ELSE Num(0)]
  ELSE EmptyStats(metric)

\* df.groupby(['location_id']): the groups in key order, rows with a missing
\* key left out; without the column, the whole table as the group all_data
Groups(t, cols) ==
  IF "location_id" \in cols
  THEN LET keys == SelectSeq(LocationOrder, LAMBDA key :
                     \E i \in 1..Len(t) : t[i].cells["location_id"] = Text(key))
       IN [g \in 1..Len(keys) |->
             [key |-> keys[g],
              rows |-> SelectRows(t, {i \in 1..Len(t) : t[i].cells["location_id"] = Text(keys[g])})]]
  ELSE << [key |-> "all_data", rows |-> t] >>

\* calculate_basic_statistics grouped by location_id
CalculateBasicStatistics(t, cols) ==
  LET available_metrics == AvailableMetrics(cols)
      grouped == Groups(t, cols)
  IN IF Empty(t, cols) \/ available_metrics = << >> THEN Returned(<< >>)
     ELSE IF \E g \in 1..Len(grouped) : \E j \in 1..Len(available_metrics) :
                HasText(DropNa(grouped[g].rows, available_metrics[j]))
     THEN Raised("TypeError", << >>)
     ELSE Returned(
            [g \in 1..Len(grouped) |->
               [group |-> grouped[g].key,
                stats |-> [j \in 1..Len(available_metrics) |->
                             MetricStats(available_metrics[j],
                                         DropNa(grouped[g].rows, available_metrics[j]))]]])

\* the correlation of two columns is defined when at least two rows hold both
\* values and neither column is constant over those rows
CorrDefined(t, c1, c2) ==
  LET both == {i \in 1..Len(t) : ~IsNa(t[i].cells[c1]) /\ ~IsNa(t[i].cells[c2])}
  IN /\ Cardinality({t[i].cells[c1].n : i \in both}) > 1
     /\ Cardinality({t[i].cells[c2].n : i \in both}) > 1

\* calculate_correlation_matrix: the keys col1_vs_col2 that are reported
CalculateCorrelationMatrix(t, cols) ==
  LET available_metrics == AvailableMetrics(cols)
  IN IF Len(available_metrics) < 2 THEN Returned({})
     ELSE IF \E j \in 1..Len(available_metrics) : HasText(DropNa(t, available_metrics[j]))
     THEN Raised("ValueError", {})
     ELSE Returned({<< available_metrics[p[1]], available_metrics[p[2]] >> :
                      p \in {q \in (1..Len(available_metrics)) \X (1..Len(available_metrics)) :
                               /\ q[1] < q[2]
                               /\ CorrDefined(t, available_metrics[q[1]],
                                              available_metrics[q[2]])}})

NonNull(xs) == SelectSeq(xs, LAMBDA x : ~IsNa(x))

\* the p-th smallest of a non-empty sequence of floats
Kth(xs, p) ==
  xs[CHOOSE i \in 1..Len(xs) :
       /\ Cardinality({j \in 1..Len(xs) : FLt(xs[j], xs[i])}) < p
       /\ p <= Cardinality({j \in 1..Len(xs) : FLe(xs[j], xs[i])})]

\* Series.quantile(num / den) with linear interpolation between the two
\* nearest samples; NaN without samples
Quantile(xs, num, den) ==
  LET ys == NonNull(xs)
      lo == ((Len(ys) - 1) * num) \div den
      rest == ((Len(ys) - 1) * num) % den
  IN IF ys = << >> THEN NaN
     ELSE IF rest = 0 THEN Kth(ys, lo + 1)
     ELSE FAdd(Kth(ys, lo + 1),
               FMul(Frac(rest, den), FSub(Kth(ys, lo + 2), Kth(ys, lo + 1))))

\* z_scores > 3 for one sample: |x - mean| / std > 3, compared as the
\* squares; with a standard deviation of 0 the z-score is NaN and not above 3
ZScoreAnomaly(x, metric_data) ==
  LET deviation == FSub(x, Mean(metric_data))
      variance == Var(metric_data)
  IN variance.n # 0 /\ FLt(FMul(Num(9), variance), FMul(deviation, deviation))

\* iqr_anomalies for one sample: outside [Q1 - 1.5 * IQR, Q3 + 1.5 * IQR]
IqrAnomaly(x, metric_data) ==
  LET Q1 == Quantile(metric_data, 1, 4)
      Q3 == Quantile(metric_data, 3, 4)
      IQR == FSub(Q3, Q1)
  IN \/ FLt(x, FSub(Q1, FMul(Frac(3, 2), IQR)))
     \/ FLt(FAdd(Q3, FMul(Frac(3, 2), IQR)), x)

\* the entry of one metric in the result of detect_anomalies
AnomalyEntry(metric, metric_data) ==
  [metric |-> metric,
   z_score_anomalies |->
     Cardinality({i \in 1..Len(metric_data) : ZScoreAnomaly(metric_data[i], metric_data)}),
   iqr_anomalies |->
     Cardinality({i \in 1..Len(metric_data) : IqrAnomaly(metric_data[i], metric_data)}),
   total_readings |-> Len(metric_data)]

\* a detection that already reports a metric with 10 samples
DetectAnomaliesFromTen(t, cols) ==
  LET checked == {c \in Range(metric_columns) \cap cols :
                    Len(DropNa(t, c)) >= ANOMALY_MIN_SAMPLES}
  IN IF \E c \in checked : HasText(DropNa(t, c)) THEN Raised("TypeError", {})
     ELSE Returned({AnomalyEntry(c, DropNa(t, c)) : c \in checked})

\* detect_anomalies: one entry per metric with more than 10 samples
DetectAnomalies(t, cols) ==
  LET checked == {c \in Range(metric_columns) \cap cols :
                    Len(DropNa(t, c)) > ANOMALY_MIN_SAMPLES}
  IN IF \E c \in checked : HasText(DropNa(t, c)) THEN Raised("TypeError", {})
     ELSE Returned({AnomalyEntry(c, DropNa(t, c)) : c \in checked})

\* pd.to_datetime(value) with the default errors='raise'
ToDatetimeRaises(cell) == ~IsNa(cell) /\ IsNa(ToDatetime(cell))

\* timestamp.dt.hour
HourOf(cell) == cell.n % 24

\* the hour buckets of groupby('hour'): rows without a timestamp are left out
HourBuckets(t) ==
  {HourOf(ToDatetime(t[i].cells["timestamp"])) :
     i \in {j \in 1..Len(t) : ~IsNa(ToDatetime(t[j].cells["timestamp"]))}}

\* the count column of hourly_stats for one metric
HourlyCount(t, metric) ==
  [h \in HourBuckets(t) |->
     Cardinality({i \in 1..Len(t) :
        /\ ~IsNa(ToDatetime(t[i].cells["timestamp"]))
        /\ HourOf(ToDatetime(t[i].cells["timestamp"])) = h
        /\ ~IsNa(t[i].cells[metric])})]

\* int(hourly_stats['std'].idxmax()) raises when no bucket has a standard
\* deviation, that is when no hour holds two samples of the metric
StdIdxmaxRaises(t, metric) ==
  \A h \in HourBuckets(t) : HourlyCount(t, metric)[h] < 2

\* analyze_temporal_patterns: per analysed metric the counts per hour
AnalyzeTemporalPatterns(t, cols) ==
  LET analysed == SelectSeq(AvailableMetrics(cols), LAMBDA c : Len(DropNa(t, c)) > 0)
  IN IF "timestamp" \notin cols THEN Returned(<< >>)
     ELSE IF \E i \in 1..Len(t) : ToDatetimeRaises(t[i].cells["timestamp"])
     THEN Raised("ValueError", << >>)
     ELSE IF \E j \in 1..Len(analysed) : HasText(DropNa(t, analysed[j]))
     THEN Raised("TypeError", << >>)
     ELSE IF \E j \in 1..Len(analysed) : StdIdxmaxRaises(t, analysed[j])
     THEN Raised("ValueError", << >>)
     ELSE Returned([j \in 1..Len(analysed) |->
                      [metric |-> analysed[j], hourly_count |-> HourlyCount(t, analysed[j])]])

NoDataQuality ==
  [computed |-> FALSE, overall_completeness |-> 0, total_rows |-> 0,
   total_missing_values |-> 0, column_quality |-> << >>]

\* a percentage cut after its second decimal instead of rounded
RoundPercentDown(num, den) == (num * 10000) \div den

\* round(x, 2) of the percentage num / den * 100, in hundredths of a percent
RoundPercent(num, den) ==
  LET q == (num * 10000) \div den
      r == (num * 10000) % den
  IN IF 2 * r > den \/ (2 * r = den /\ q % 2 = 1) THEN q + 1 ELSE q

\* calculate_data_quality_metrics
CalculateDataQualityMetrics(t, cols) ==
  LET total_rows == Len(t)
      total_cells == total_rows * Cardinality(cols)
      missing_cells == Cardinality({p \in (1..Len(t)) \X cols : IsNa(t[p[1]].cells[p[2]])})
      quality_columns == AvailableMetrics(cols)
  IN IF total_rows = 0 THEN NoDataQuality
     ELSE [computed |-> TRUE,
           overall_completeness |-> RoundPercent(total_cells - missing_cells, total_cells),
           total_rows |-> total_rows,
           total_missing_values |-> missing_cells,
           column_quality |->
             [j \in 1..Len(quality_columns) |->
                [column |-> quality_columns[j],
                 missing_count |-> total_rows - Len(DropNa(t, quality_columns[j])),
                 completeness |-> RoundPercent(Len(DropNa(t, quality_columns[j])), total_rows)]]]

RECURSIVE Flatten(_)
\* the concatenation of a sequence of sequences
Flatten(ss) == IF ss = << >> THEN << >> ELSE Head(ss) \o Flatten(Tail(ss))

\* a flattening that keeps the entries without samples too
GenerateAggregatedMetricsUnfiltered(t, cols, file_name, data_source) ==
  LET stats == CalculateBasicStatistics(t, cols)
  IN IF stats.raised THEN Raised(stats.exc, << >>)
     ELSE Returned(Flatten(
            [g \in 1..Len(stats.value) |->
               [j \in 1..Len(stats.value[g].stats) |->
                  [location_id |-> stats.value[g].group,
                   metric_name |-> stats.value[g].stats[j].metric,
                   min_value |-> stats.value[g].stats[j].min,
                   max_value |-> stats.value[g].stats[j].max,
                   count |-> stats.value[g].stats[j].count,
                   file_name |-> file_name,
                   data_source |-> data_source]]]))

\* generate_aggregated_metrics: one record per (location, metric) with samples
GenerateAggregatedMetrics(t, cols, file_name, data_source) ==
  LET stats == CalculateBasicStatistics(t, cols)
  IN IF stats.raised THEN Raised(stats.exc, << >>)
     ELSE Returned(Flatten(
            [g \in 1..Len(stats.value) |->
               LET with_data == SelectSeq(stats.value[g].stats, LAMBDA m : m.count > 0)
               IN [j \in 1..Len(with_data) |->
                     [location_id |-> stats.value[g].group,
                      metric_name |-> with_data[j].metric,
                      min_value |-> with_data[j].min,
                      max_value |-> with_data[j].max,
                      count |-> with_data[j].count,
                      file_name |-> file_name,
                      data_source |-> data_source]]]))

NoReport ==
  [status |-> "none", file_name |-> "", data_source |-> "", analysis_timestamp |-> "",
   basic_statistics |-> << >>, correlations |-> {}, anomalies |-> {},
   temporal_patterns |-> << >>, data_quality |-> NoDataQuality,
   aggregated_metrics |-> << >>, has_error |-> FALSE, error |-> "", ran |-> << >>]

\* the body of the try block of analyze_data: the sub-analyses in order, each
\* result stored in the report; the first exception leaves the block
RunAnalyses(t, cols, file_name, data_source) ==
  LET start == [NoReport EXCEPT !.status = "returned", !.file_name = file_name,
                                !.data_source = data_source,
                                !.analysis_timestamp = "utcnow"]
      basic == CalculateBasicStatistics(t, cols)
      corr == CalculateCorrelationMatrix(t, cols)
      anom == DetectAnomalies(t, cols)
      temporal == AnalyzeTemporalPatterns(t, cols)
      quality == CalculateDataQualityMetrics(t, cols)
      aggregated == GenerateAggregatedMetrics(t, cols, file_name, data_source)
      r1 == [start EXCEPT !.basic_statistics = basic.value]
      r2 == [r1 EXCEPT !.correlations = corr.value]
      r3 == [r2 EXCEPT !.anomalies = anom.value]
      r4 == [r3 EXCEPT !.temporal_patterns = temporal.value]
      r5 == [r4 EXCEPT !.data_quality = quality]
      r6 == [r5 EXCEPT !.aggregated_metrics = aggregated.value]
      all == << "basic_statistics", "correlations", "anomalies", "temporal_patterns",
                "data_quality", "aggregated_metrics" >>
  IN IF basic.raised
     THEN [raised |-> TRUE, exc |-> basic.exc, report |-> [start EXCEPT !.ran = SubSeq(all, 1, 1)]]
     ELSE IF corr.raised
     THEN [raised |-> TRUE, exc |-> corr.exc, report |-> [r1 EXCEPT !.ran = SubSeq(all, 1, 2)]]
     ELSE IF anom.raised
     THEN [raised |-> TRUE, exc |-> anom.exc, report |-> [r2 EXCEPT !.ran = SubSeq(all, 1, 3)]]
     ELSE IF temporal.raised
     THEN [raised |-> TRUE, exc |-> temporal.exc, report |-> [r3 EXCEPT !.ran = SubSeq(all, 1, 4)]]
     ELSE IF aggregated.raised
     THEN [raised |-> TRUE, exc |-> aggregated.exc, report |-> [r5 EXCEPT !.ran = all]]
     ELSE [raised |-> FALSE, exc |-> "", report |-> [r6 EXCEPT !.ran = all]]

\* a handler that lets every exception but ValueError leave analyze_data
CatchValueErrorOnly(outcome) ==
  IF outcome.raised /\ outcome.exc = "ValueError"
  THEN [outcome.report EXCEPT !.has_error = TRUE, !.error = outcome.exc]
  ELSE IF outcome.raised THEN [outcome.report EXCEPT !.status = "raised"]
  ELSE outcome.report

\* except Exception as e: analysis_results['error'] = str(e)
CatchException(outcome) ==
  IF outcome.raised
  THEN [outcome.report EXCEPT !.has_error = TRUE, !.error = outcome.exc]
  ELSE outcome.report

\* analyze_data
AnalyzeData(t, cols, file_name, data_source) ==
  CatchException(RunAnalyses(t, cols, file_name, data_source))

\* ------------------------------------------------------------- DataPipeline
NoRun == [status |-> "none", result |-> FALSE, failed |-> 0, stages |-> << >>,
          validation |-> NoValidation]

\* process_file without its except clause: the exception of pd.read_csv or of
\* validate_data leaves the function
ProcessFileUncaught(t, cols, readable, fs) ==
  LET v == ValidateData(t, cols, fs)
  IN IF ~readable
     THEN [NoRun EXCEPT !.status = "raised", !.stages = << "load" >>]
     ELSE IF Empty(t, cols)
     THEN [NoRun EXCEPT !.status = "returned", !.stages = << "load" >>]
     ELSE IF v.status = "raised"
     THEN [status |-> "raised", result |-> FALSE, failed |-> 0,
           stages |-> << "load", "validate" >>, validation |-> v]
     ELSE IF ~v.accepted \/ Empty(v.table, cols)
     THEN [status |-> "returned", result |-> FALSE, failed |-> 1,
           stages |-> << "load", "validate" >>, validation |-> v]
     ELSE [status |-> "returned", result |-> TRUE, failed |-> 0,
           stages |-> << "load", "validate" >>, validation |-> v]

\* process_file: load, validate, report; every exception becomes False and
\* counts as a failure, an empty file is skipped without counting
ProcessFile(t, cols, readable, fs) ==
  LET v == ValidateData(t, cols, fs)
  IN IF ~readable
     THEN [NoRun EXCEPT !.status = "returned", !.failed = 1, !.stages = << "load" >>]
     ELSE IF Empty(t, cols)
     THEN [NoRun EXCEPT !.status = "returned", !.stages = << "load" >>]
     ELSE IF v.status = "raised" \/ ~v.accepted \/ Empty(v.table, cols)
     THEN [status |-> "returned", result |-> FALSE, failed |-> 1,
           stages |-> << "load", "validate" >>, validation |-> v]
     ELSE [status |-> "returned", result |-> TRUE, failed |-> 0,
           stages |-> << "load", "validate" >>, validation |-> v]

\* ------------------------------------------------------------ table objects
\* A DataFrame object as a function sees it: `caller` tells whether it is the
\* object the caller passed in, so that a write into it changes the caller's
\* table.
CallerObject(t, cols) == [caller |-> TRUE, cols |-> cols, rows |-> t]

\* df.dropna(...), df[mask], df.sort_values(...): a new object
NewObject(t, cols) == [caller |-> FALSE, cols |-> cols, rows |-> t]

\* a function that writes into the object it was given
DfAlias(object) == object

\* df.copy(): a new object with the same content
DfCopy(object) == [object EXCEPT !.caller = FALSE]

\* df[col] = value for every row: values[i] maps the written columns of row i
\* to their new cells
AssignColumns(object, written, values) ==
  [object EXCEPT !.cols = object.cols \cup written,
                 !.rows = [i \in 1..Len(object.rows) |->
                             [object.rows[i] EXCEPT !.cells = values[i] @@ object.rows[i].cells]]]

\* the caller's table after a call that bound these objects, in this order
CallerAfter(objects) ==
  LET held == SelectSeq(objects, LAMBDA o : o.caller)
  IN [cols |-> held[Len(held)].cols, rows |-> held[Len(held)].rows]

\* ---------------------------------------------------------- DataTransformer
INTERPOLATE_LIMIT == 5

\* headers that are not in the standard form, and the others as they are: the
\* lower-cased name with blanks and dashes turned into underscores
StandardName(col) ==
  CASE col = "Stress Level" -> "stress_level"
    [] col = "Sleep-Hours" -> "sleep_hours"
    [] OTHER -> col

\* standardize_column_names: rename(columns=column_mapping, inplace=True) on a copy
StandardizeColumnNames(object) ==
  LET df_transformed == DfCopy(object)
      renamed == {StandardName(c) : c \in df_transformed.cols}
      source(c) == CHOOSE x \in df_transformed.cols : StandardName(x) = c
  IN [df_transformed EXCEPT
        !.cols = renamed,
        !.rows = [i \in 1..Len(df_transformed.rows) |->
                    [df_transformed.rows[i] EXCEPT
                       !.cells = [c \in renamed |-> df_transformed.rows[i].cells[source(c)]]]]]

\* row.get(col, default): the default only when the row has no such column
RowGet(cells, col, default) == IF col \in DOMAIN cells THEN cells[col] ELSE default

\* calculate_mental_health_risk, for one row
CalculateMentalHealthRisk(cells) ==
  LET stress == RowGet(cells, "stress_level", Num(0))
      sleep == RowGet(cells, "sleep_hours", Num(8))
      mood == RowGet(cells, "mood_score", Num(3))
      stress_risk == PyMin(FDiv(stress, Num(100)), Num(1))
      sleep_risk == PyMax(Num(0), FDiv(FSub(Num(8), sleep), Num(8)))
      mood_risk == PyMax(Num(0), FDiv(FSub(Num(3), mood), Num(3)))
  IN FDiv(FAdd(FAdd(stress_risk, sleep_risk), mood_risk), Num(3))

\* calculate_comfort_index, for one row
CalculateComfortIndex(cells) ==
  LET temp == RowGet(cells, "temperature_celsius", Num(22))
      humidity == RowGet(cells, "humidity_percent", Num(50))
      noise == RowGet(cells, "noise_level_db", Num(50))
      temp_comfort == FSub(Num(1), FDiv(FAbs(FSub(temp, Num(22))), Num(10)))
      humidity_comfort == FSub(Num(1), FDiv(FAbs(FSub(humidity, Num(50))), Num(50)))
      noise_comfort == PyMax(Num(0), FDiv(FSub(Num(70), noise), Num(70)))
      temp_clamped == PyMax(Num(0), PyMin(Num(1), temp_comfort))
      humidity_clamped == PyMax(Num(0), PyMin(Num(1), humidity_comfort))
      noise_clamped == PyMax(Num(0), PyMin(Num(1), noise_comfort))
  IN FDiv(FAdd(FAdd(temp_clamped, humidity_clamped), noise_clamped), Num(3))

\* timestamp.dt.dayofweek and .dt.month: 2024-01-01 is a Monday
DayOfWeek(cell) == (cell.n \div 24) % 7
MonthOf(cell) == IF cell.n < 31 * 24 THEN 1 ELSE 2

\* the columns add_derived_columns writes
DerivedColumns(cols) ==
  (IF Range(env_columns) \cap cols # {} THEN {"data_quality_score"} ELSE {})
  \cup (IF {"stress_level", "sleep_hours", "mood_score"} \subseteq cols
        THEN {"mental_health_risk"} ELSE {})
  \cup (IF {"temperature_celsius", "humidity_percent", "noise_level_db"} \subseteq cols
        THEN {"comfort_index"} ELSE {})
  \cup (IF "timestamp" \in cols THEN {"hour", "day_of_week", "month"} ELSE {})

\* the cell add_derived_columns writes into one derived column of one row
DerivedCell(cells, cols, c) ==
  LET available_env_columns == Range(env_columns) \cap cols
      when == ToDatetime(cells["timestamp"])
  IN CASE c = "data_quality_score" ->
            Frac(Cardinality({e \in available_env_columns : ~IsNa(cells[e])}),
                 Cardinality(available_env_columns))
       [] c = "mental_health_risk" -> CalculateMentalHealthRisk(cells)
       [] c = "comfort_index" -> CalculateComfortIndex(cells)
       [] c = "hour" -> IF IsNa(when) THEN NaN ELSE Num(HourOf(when))
       [] c = "day_of_week" -> IF IsNa(when) THEN NaN ELSE Num(DayOfWeek(when))
       [] OTHER -> IF IsNa(when) THEN NaN ELSE Num(MonthOf(when))

\* add_derived_columns
AddDerivedColumns(object) ==
  LET df_transformed == DfCopy(object)
      written == DerivedColumns(df_transformed.cols)
  IN AssignColumns(df_transformed, written,
       [i \in 1..Len(df_transformed.rows) |->
          [c \in written |-> DerivedCell(df_transformed.rows[i].cells, df_transformed.cols, c)]])

\* df[col] as the sequence of its cells in row order
Column(rows, c) == [i \in 1..Len(rows) |-> rows[i].cells[c]]

\* df[col] = values
AssignColumn(object, c, values) ==
  AssignColumns(object, {c}, [i \in 1..Len(object.rows) |-> [x \in {c} |-> values[i]]])

\* Series.max(): NaN without samples
FMax(xs) ==
  LET ys == NonNull(xs)
  IN IF ys = << >> THEN NaN
     ELSE ys[CHOOSE i \in 1..Len(ys) : \A j \in 1..Len(ys) : FLe(ys[j], ys[i])]

\* normalize_units: a temperature column whose mean is above 50 is read as
\* Fahrenheit, a humidity column whose maximum is at most 1 as a fraction
NormalizeUnits(object) ==
  LET df_transformed == DfCopy(object)
      temp == Column(df_transformed.rows, "temperature_celsius")
      d1 == IF "temperature_celsius" \in df_transformed.cols
               /\ FLt(Num(50), Mean(NonNull(temp)))
            THEN AssignColumn(df_transformed, "temperature_celsius",
                   [i \in 1..Len(temp) |-> FDiv(FMul(FSub(temp[i], Num(32)), Num(5)), Num(9))])
            ELSE df_transformed
      humidity == Column(d1.rows, "humidity_percent")
  IN IF "humidity_percent" \in d1.cols /\ FLe(FMax(humidity), Num(1))
     THEN AssignColumn(d1, "humidity_percent",
            [i \in 1..Len(humidity) |-> FMul(humidity[i], Num(100))])
     ELSE d1

\* the bounds Q1 - 3 * IQR and Q3 + 3 * IQR of a column
OutlierBounds(xs) ==
  LET Q1 == Quantile(xs, 1, 4)
      Q3 == Quantile(xs, 3, 4)
      IQR == FSub(Q3, Q1)
  IN [lower |-> FSub(Q1, FMul(Num(3), IQR)), upper |-> FAdd(Q3, FMul(Num(3), IQR))]

\* a capping that forgets the upper bound
CappedLowerOnly(xs) ==
  LET b == OutlierBounds(xs)
  IN [i \in 1..Len(xs) |-> IF FLt(xs[i], b.lower) THEN b.lower ELSE xs[i]]

\* the column after df.loc[df[col] < lower_bound, col] = lower_bound and the
\* same for the upper bound
Capped(xs) ==
  LET b == OutlierBounds(xs)
      low == [i \in 1..Len(xs) |-> IF FLt(xs[i], b.lower) THEN b.lower ELSE xs[i]]
  IN [i \in 1..Len(xs) |-> IF FLt(b.upper, low[i]) THEN b.upper ELSE low[i]]

RECURSIVE CapColumns(_, _)
\* the loop of handle_outliers over the columns still to be looked at
CapColumns(object, todo) ==
  IF todo = << >> THEN object
  ELSE LET col == Head(todo)
           xs == Column(object.rows, col)
           b == OutlierBounds(xs)
           outlier_count ==
             Cardinality({i \in 1..Len(xs) : FLt(xs[i], b.lower) \/ FLt(b.upper, xs[i])})
       IN IF col \in object.cols /\ outlier_count > 0
          THEN CapColumns(AssignColumn(object, col, Capped(xs)), Tail(todo))
          ELSE CapColumns(object, Tail(todo))

\* handle_outliers: its numeric_columns are the nine metric columns
HandleOutliers(object) == CapColumns(DfCopy(object), metric_columns)

\* the nearest position before (after) i that holds a value, 0 if there is none
PrevValid(xs, i) ==
  LET before == {j \in 1..(i - 1) : ~IsNa(xs[j])}
  IN IF before = {} THEN 0 ELSE MaxOf(before)
NextValid(xs, i) ==
  LET after == {j \in (i + 1)..Len(xs) : ~IsNa(xs[j])}
  IN IF after = {} THEN 0 ELSE MinOf(after)

\* the value linear interpolation gives position i: on the line between the
\* neighbouring values, the nearest value outside them
LinearValue(xs, i) ==
  LET p == PrevValid(xs, i)
      q == NextValid(xs, i)
  IN IF p = 0 THEN xs[q]
     ELSE IF q = 0 THEN xs[p]
     ELSE FAdd(xs[p], FMul(Frac(i - p, q - p), FSub(xs[q], xs[p])))

\* limit=5 with limit_direction='both': a missing value is filled when it is
\* within 5 positions after a value or within 5 positions before one
WithinLimit(xs, i) ==
  LET p == PrevValid(xs, i)
      q == NextValid(xs, i)
  IN (p # 0 /\ i - p <= INTERPOLATE_LIMIT) \/ (q # 0 /\ q - i <= INTERPOLATE_LIMIT)

\* Series.interpolate(method='linear', limit_direction='both', limit=5)
Interpolate(xs) ==
  IF NonNull(xs) = << >> THEN xs
  ELSE [i \in 1..Len(xs) |->
          IF IsNa(xs[i]) /\ WithinLimit(xs, i) THEN LinearValue(xs, i) ELSE xs[i]]

\* fillna(method='ffill')
Ffill(xs) ==
  [i \in 1..Len(xs) |->
     IF IsNa(xs[i]) /\ PrevValid(xs, i) # 0 THEN xs[PrevValid(xs, i)] ELSE xs[i]]

\* a backward fill that is left out
BfillNothing(xs) == xs

\* fillna(method='bfill')
Bfill(xs) ==
  [i \in 1..Len(xs) |->
     IF IsNa(xs[i]) /\ NextValid(xs, i) # 0 THEN xs[NextValid(xs, i)] ELSE xs[i]]

\* the orders sort_values('timestamp') may return (order[k] is the position
\* of the row that comes k-th): ascending timestamps, rows without one last
\* and in their order; the default quicksort is not stable, so rows with equal
\* timestamps come in any order
SortOrders(t, cols) ==
  LET n == Len(t)
      key(i) == ToDatetime(t[i].cells["timestamp"])
  IN IF "timestamp" \notin cols THEN {[i \in 1..n |-> i]}
     ELSE {p \in Permutations(1..n) :
             \A a, b \in 1..n : a < b =>
                /\ ~(IsNa(key(p[a])) /\ ~IsNa(key(p[b])))
                /\ (~IsNa(key(p[a])) /\ ~IsNa(key(p[b]))) => key(p[a]).n <= key(p[b]).n
                /\ (IsNa(key(p[a])) /\ IsNa(key(p[b]))) => p[a] < p[b]}

RECURSIVE FillColumns(_, _)
\* the loop of interpolate_missing_values over the columns still to be looked at
FillColumns(object, todo) ==
  IF todo = << >> THEN object
  ELSE LET col == Head(todo)
           xs == Column(object.rows, col)
           missing_count == Len(xs) - Len(NonNull(xs))
       IN IF col \in object.cols /\ missing_count > 0
          THEN FillColumns(AssignColumn(object, col, Bfill(Ffill(Interpolate(xs)))), Tail(todo))
          ELSE FillColumns(object, Tail(todo))

\* a sort that leaves out the rows without a timestamp
InterpolateDroppingUntimed(object, order) ==
  LET df_transformed == DfCopy(object)
      timed == SelectSeq(order, LAMBDA k :
                 ~IsNa(ToDatetime(df_transformed.rows[k].cells["timestamp"])))
      sorted == IF "timestamp" \in df_transformed.cols
                THEN NewObject([k \in 1..Len(timed) |-> df_transformed.rows[timed[k]]],
                               df_transformed.cols)
                ELSE df_transformed
  IN FillColumns(sorted, env_columns)

\* interpolate_missing_values: the sorted table is the one that is filled and
\* returned
InterpolateMissingValues(object, order) ==
  LET df_transformed == DfCopy(object)
      sorted == IF "timestamp" \in df_transformed.cols
                THEN NewObject([k \in 1..Len(df_transformed.rows) |->
                                  df_transformed.rows[order[k]]], df_transformed.cols)
                ELSE df_transformed
  IN FillColumns(sorted, env_columns)

\* add_metadata
AddMetadata(object, file_name, data_source, now) ==
  LET df_transformed == DfCopy(object)
      written == {"file_name", "data_source", "processing_timestamp", "data_version"}
      value(c) == CASE c = "file_name" -> Text(file_name)
                    [] c = "data_source" -> Text(data_source)
                    [] c = "processing_timestamp" -> now
                    [] OTHER -> Text("1.0")
  IN AssignColumns(df_transformed, written,
       [i \in 1..Len(df_transformed.rows) |-> [c \in written |-> value(c)]])

NoTransform == [status |-> "none", cols |-> {}, rows |-> << >>,
                argument |-> [cols |-> {}, rows |-> << >>]]

\* transform_data: the six steps in order; the result is the last table, the
\* argument is the caller's table as the call leaves it
TransformData(t, cols, file_name, data_source, order, now) ==
  LET df == CallerObject(t, cols)
      s1 == StandardizeColumnNames(df)
      s2 == AddDerivedColumns(s1)
      s3 == NormalizeUnits(s2)
      s4 == HandleOutliers(s3)
      s5 == InterpolateMissingValues(s4, order)
      s6 == AddMetadata(s5, file_name, data_source, now)
  IN [status |-> "returned", cols |-> s6.cols, rows |-> s6.rows,
      argument |-> CallerAfter(<< df, s1, s2, s3, s4, s5, s6 >>)]

\* one step of the transformer called on its own
StepResult(object, result) ==
  [status |-> "returned", cols |-> result.cols, rows |-> result.rows,
   argument |-> CallerAfter(<< object, result >>)]

\* ------------------------------------------- the argument after the call
\* validate_data: dropna returns a new table, validate_data_types writes the
\* typed columns into a copy of it, the later steps select rows
ValidateDataArgument(t, cols) ==
  LET df == CallerObject(t, cols)
      df_cleaned == NewObject(DropAllNullRows(t, cols), cols)
      copy == DfCopy(df_cleaned)
      validated_df == [copy EXCEPT !.rows = ValidateDataTypes(copy.rows, cols).table]
  IN CallerAfter(<< df, df_cleaned, validated_df >>)

DayNames == << "Monday", "Tuesday", "Wednesday", "Thursday", "Friday", "Saturday", "Sunday" >>

\* analyze_temporal_patterns: df_temp with the parsed timestamp, hour and
\* day_of_week written into it
TemporalFrame(object) ==
  LET df_temp == DfCopy(object)
      when(i) == ToDatetime(df_temp.rows[i].cells["timestamp"])
  IN AssignColumns(df_temp, {"timestamp", "hour", "day_of_week"},
       [i \in 1..Len(df_temp.rows) |->
          [c \in {"timestamp", "hour", "day_of_week"} |->
             CASE c = "timestamp" -> when(i)
               [] c = "hour" -> IF IsNa(when(i)) THEN NaN ELSE Num(HourOf(when(i)))
               [] OTHER -> IF IsNa(when(i)) THEN NaN
                           ELSE Text(DayNames[DayOfWeek(when(i)) + 1])]])

\* analyze_data: of the sub-analyses that ran, only analyze_temporal_patterns
\* writes into a table
AnalyzeDataArgument(t, cols, ran) ==
  LET df == CallerObject(t, cols)
  IN IF /\ Len(ran) >= 4
        /\ "timestamp" \in cols
        /\ \A i \in 1..Len(t) : ~ToDatetimeRaises(t[i].cells["timestamp"])
     THEN CallerAfter(<< df, TemporalFrame(df) >>)
     ELSE CallerAfter(<< df >>)

\* ------------------------------------------------------------ state machine
VARIABLES
  df,              \* the table of the input file, rows indexed from 0
  columns,         \* the columns of the input file
  pc,              \* "input" while the file is written, then the call made
  validation,      \* the outcome of validate_data
  run,             \* the outcome of process_file
  failed_count,    \* DataPipeline.failed_count
  processed_count, \* DataPipeline.processed_count
  report,          \* the report of analyze_data
  transformed,     \* the outcome of transform_data or of one of its steps
  anomalies,       \* the outcome of detect_anomalies
  data_quality,    \* the outcome of calculate_data_quality_metrics
  files,           \* the watch directory: per path whether it exists, its size and mtime
  clock,           \* the time datetime.now() returns
  events,          \* the file-system events the observer has not dispatched yet
  observer,        \* the watchdog observer thread: started, and where its handler is
  scanner,         \* the thread that starts the monitor and scans the directory
  processed_files, \* the processed_files set of the monitor
  last_check,      \* PollingMonitor.last_check
  is_running,      \* the is_running flag of the monitor
  delivered,       \* per path, the calls of process_callback with it
  retry            \* one call of process_file_with_retry: where it is and what it did

\* --------------------------------------------------- the watch directory
\* config.FILE_EXTENSIONS
FILE_EXTENSIONS == << ".csv" >>

Paths == {"a.csv", "notes.txt"}

\* the end of a path from its last dot
Suffix(path) == IF path = "a.csv" THEN ".csv" ELSE ".txt"

\* any(file_path.lower().endswith(ext) for ext in config.FILE_EXTENSIONS), and
\* the match of the glob pattern f"*{ext}"
HasWatchedExtension(path) ==
  \E i \in 1..Len(FILE_EXTENSIONS) : Suffix(path) = FILE_EXTENSIONS[i]

NoFile == [exists |-> FALSE, size |-> 0, mtime |-> 0]

\* an observer that was not started, its handler idle
NoObserver == [started |-> FALSE, pc |-> "idle", file_path |-> ""]

\* no call of process_file_with_retry
NoRetry == [pc |-> "idle", func |-> "", attempt |-> 0, invocations |-> 0,
            sleeps |-> << >>, result |-> FALSE, raised |-> FALSE]

monitorVars == << files, clock, events, observer, scanner, processed_files, last_check,
                 is_running, delivered >>

vars == << df, columns, pc, validation, run, failed_count, processed_count, report,
           transformed, anomalies, data_quality, monitorVars, retry >>

\* no monitor was constructed
NoMonitor ==
  /\ files = [path \in Paths |-> NoFile]
  /\ clock = 0
  /\ events = << >>
  /\ observer = NoObserver
  /\ scanner = [pc |-> "absent", todo |-> {}]
  /\ processed_files = {}
  /\ last_check = 0
  /\ is_running = FALSE
  /\ delivered = [path \in Paths |-> 0]

FILE_NAME == "sensors.csv"
DATA_SOURCE == "kaggle_iot_dataset"

Init ==
  /\ df = << >>
  /\ columns \in ColumnSets
  /\ pc = "input"
  /\ validation = NoValidation
  /\ run = NoRun
  /\ failed_count = 0
  /\ processed_count = 0
  /\ report = NoReport
  /\ transformed = NoTransform
  /\ anomalies = Returned({})
  /\ data_quality = NoDataQuality
  /\ NoMonitor
  /\ retry = NoRetry

\* one more row of the input file
AddRow(cells) ==
  /\ pc = "input"
  /\ Len(df) < MaxRows
  /\ df' = Append(df, [idx |-> Len(df), cells |-> cells])
  /\ UNCHANGED << columns, pc, validation, run, failed_count, processed_count, report,
                  transformed, anomalies, data_quality, monitorVars, retry >>

\* validator.validate_data(df, file_path)
Validate(fs) ==
  /\ pc = "input"
  /\ validation' = ValidateData(df, columns, fs)
  /\ df' = ValidateDataArgument(df, columns).rows
  /\ columns' = ValidateDataArgument(df, columns).cols
  /\ pc' = "validated"
  /\ UNCHANGED << run, failed_count, processed_count, report, transformed, anomalies, data_quality, monitorVars, retry >>

\* pipeline.process_file(file_path)
Process(readable, fs) ==
  /\ pc = "input"
  /\ run' = ProcessFile(df, columns, readable, fs)
  /\ validation' = run'.validation
  /\ failed_count' = failed_count + run'.failed
  /\ pc' = "processed"
  /\ UNCHANGED << df, columns, processed_count, report, transformed, anomalies, data_quality, monitorVars, retry >>

\* analyzer.analyze_data(df, file_name, data_source)
Analyze ==
  /\ pc = "input"
  /\ report' = AnalyzeData(df, columns, FILE_NAME, DATA_SOURCE)
  /\ df' = AnalyzeDataArgument(df, columns, report'.ran).rows
  /\ columns' = AnalyzeDataArgument(df, columns, report'.ran).cols
  /\ pc' = "analyzed"
  /\ UNCHANGED << validation, run, failed_count, processed_count, transformed, anomalies, data_quality, monitorVars, retry >>

Next ==
  \/ \E cells \in InputRows : AddRow(cells)
  \/ \E fs \in FsOutcomes : Validate(fs)
  \/ \E readable \in BOOLEAN, fs \in FsOutcomes : Process(readable, fs)
  \/ Analyze

Spec == Init /\ [][Next]_vars

\* ---------------------------------------------- transform_data on a table
\* the headers of the tables given to transform_data
TransformColumnSets ==
  { AllColumns,
    (AllColumns \ {"stress_level", "sleep_hours"}) \cup {"Stress Level", "Sleep-Hours"},
    AllColumns \ {"timestamp", "humidity_percent"} }

\* the row on which every sub-score of both composite scores is at its best
NeutralRow ==
  [ GoodRow EXCEPT !.timestamp = Text("2024-01-01 02:00"),
                   !.temperature_celsius = Num(22),
                   !.noise_level_db = Num(50),
                   !.stress_level = Num(0),
                   !.sleep_hours = Num(8) ]

TransformRows ==
  { GoodRow,
    NeutralRow,
    [GoodRow EXCEPT !.location_id = Text("B"),
                    !.timestamp = Text("2024-01-02 01:00"),
                    !.stress_level = Null,
                    !.humidity_percent = Num(1)],
    [GoodRow EXCEPT !.timestamp = Text("2024-01-01 02:00"), !.stress_level = Num(-400),
                    !.noise_level_db = Null],
    [GoodRow EXCEPT !.timestamp = Null, !.temperature_celsius = Null,
                    !.sleep_hours = Num(-24)],
    [GoodRow EXCEPT !.temperature_celsius = Num(150), !.humidity_percent = Null,
                    !.mood_score = Null, !.sleep_hours = Null] }

\* the values datetime.utcnow() returns
ClockValues == {Time(720)}

InitTransform ==
  /\ df = << >>
  /\ columns \in TransformColumnSets
  /\ pc = "input"
  /\ validation = NoValidation
  /\ run = NoRun
  /\ failed_count = 0
  /\ processed_count = 0
  /\ report = NoReport
  /\ transformed = NoTransform
  /\ anomalies = Returned({})
  /\ data_quality = NoDataQuality
  /\ NoMonitor
  /\ retry = NoRetry

\* one more row of the table, under the headers of the file
AddTransformRow(cells) ==
  /\ pc = "input"
  /\ Len(df) < MaxTransformRows
  /\ df' = Append(df, [idx |-> Len(df),
                       cells |-> [c \in columns |-> cells[StandardName(c)]]])
  /\ UNCHANGED << columns, pc, validation, run, failed_count, processed_count, report,
                  transformed, anomalies, data_quality, monitorVars, retry >>

\* transformer.transform_data(df, file_name, data_source)
Transform(order, now) ==
  /\ pc = "input"
  /\ transformed' = TransformData(df, columns, FILE_NAME, DATA_SOURCE, order, now)
  /\ df' = transformed'.argument.rows
  /\ columns' = transformed'.argument.cols
  /\ pc' = "transformed"
  /\ UNCHANGED << validation, run, failed_count, processed_count, report, anomalies, data_quality, monitorVars, retry >>

NextTransform ==
  \/ \E cells \in TransformRows : AddTransformRow(cells)
  \/ \E order \in SortOrders(df, columns), now \in ClockValues : Transform(order, now)
  \/ \E fs \in FsOutcomes : Validate(fs)
  \/ Analyze

SpecTransform == InitTransform /\ [][NextTransform]_vars

\* ------------------------------------- one step of the transformer on a column
SeriesColumns == {"temperature_celsius", "stress_level"}

SeriesValues == {Null, Num(10), Num(20)}

InitSeries ==
  /\ df = << >>
  /\ columns = SeriesColumns
  /\ pc = "input"
  /\ validation = NoValidation
  /\ run = NoRun
  /\ failed_count = 0
  /\ processed_count = 0
  /\ report = NoReport
  /\ transformed = NoTransform
  /\ anomalies = Returned({})
  /\ data_quality = NoDataQuality
  /\ NoMonitor
  /\ retry = NoRetry

\* one more row: the same value in an environmental column and in another
\* metric column
AddSample(v) ==
  /\ pc = "input"
  /\ Len(df) < MaxSeriesLen
  /\ df' = Append(df, [idx |-> Len(df), cells |-> [c \in SeriesColumns |-> v]])
  /\ UNCHANGED << columns, pc, validation, run, failed_count, processed_count, report,
                  transformed, anomalies, data_quality, monitorVars, retry >>

\* transformer.handle_outliers(df)
CapOutliers ==
  /\ pc = "input"
  /\ transformed' = StepResult(CallerObject(df, columns),
                               HandleOutliers(CallerObject(df, columns)))
  /\ df' = transformed'.argument.rows
  /\ columns' = transformed'.argument.cols
  /\ pc' = "capped"
  /\ UNCHANGED << validation, run, failed_count, processed_count, report, anomalies, data_quality, monitorVars, retry >>

\* transformer.interpolate_missing_values(df)
FillMissing(order) ==
  /\ pc = "input"
  /\ transformed' = StepResult(CallerObject(df, columns),
                               InterpolateMissingValues(CallerObject(df, columns), order))
  /\ df' = transformed'.argument.rows
  /\ columns' = transformed'.argument.cols
  /\ pc' = "filled"
  /\ UNCHANGED << validation, run, failed_count, processed_count, report, anomalies, data_quality, monitorVars, retry >>

NextSeries ==
  \/ \E v \in SeriesValues : AddSample(v)
  \/ CapOutliers
  \/ \E order \in SortOrders(df, columns) : FillMissing(order)

SpecSeries == InitSeries /\ [][NextSeries]_vars

\* ------------------------------ transform_data on a column with missing runs
GapValues == {Null, Num(10)}

\* one more row: a value or a gap, the same in both columns
AddGapSample(v) ==
  /\ pc = "input"
  /\ Len(df) < MaxGapLen
  /\ df' = Append(df, [idx |-> Len(df), cells |-> [c \in SeriesColumns |-> v]])
  /\ UNCHANGED << columns, pc, validation, run, failed_count, processed_count, report,
                  transformed, anomalies, data_quality, monitorVars, retry >>

NextGaps ==
  \/ \E v \in GapValues : AddGapSample(v)
  \/ \E order \in SortOrders(df, columns), now \in ClockValues : Transform(order, now)

SpecGaps == InitSeries /\ [][NextGaps]_vars

\* ------------------------------------------- detect_anomalies on a tall table
AnomalyColumnSets == { {"stress_level", "mood_score"}, {"stress_level"} }

AnomalyRows ==
  { [stress_level |-> Num(5), mood_score |-> Num(3)],
    [stress_level |-> Num(100), mood_score |-> Null] }

InitAnomalies ==
  /\ df = << >>
  /\ columns \in AnomalyColumnSets
  /\ pc = "input"
  /\ validation = NoValidation
  /\ run = NoRun
  /\ failed_count = 0
  /\ processed_count = 0
  /\ report = NoReport
  /\ transformed = NoTransform
  /\ anomalies = Returned({})
  /\ data_quality = NoDataQuality
  /\ NoMonitor
  /\ retry = NoRetry

AddReading(cells) ==
  /\ pc = "input"
  /\ Len(df) < MaxReadings
  /\ df' = Append(df, [idx |-> Len(df), cells |-> [c \in columns |-> cells[c]]])
  /\ UNCHANGED << columns, pc, validation, run, failed_count, processed_count, report,
                  transformed, anomalies, data_quality, monitorVars, retry >>

\* analyzer.detect_anomalies(df)
Detect ==
  /\ pc = "input"
  /\ anomalies' = DetectAnomalies(df, columns)
  /\ pc' = "detected"
  /\ UNCHANGED << df, columns, validation, run, failed_count, processed_count, report,
                  transformed, data_quality, monitorVars, retry >>

NextAnomalies ==
  \/ \E cells \in AnomalyRows : AddReading(cells)
  \/ Detect

SpecAnomalies == InitAnomalies /\ [][NextAnomalies]_vars

\* ------------------------------- calculate_data_quality_metrics on a table
QualityColumnSets == { Range(required_columns), {"location_id", "mood_score"} }

QualityRows == { GoodRow, [GoodRow EXCEPT !.mood_score = Null] }

InitQuality ==
  /\ df = << >>
  /\ columns \in QualityColumnSets
  /\ pc = "input"
  /\ validation = NoValidation
  /\ run = NoRun
  /\ failed_count = 0
  /\ processed_count = 0
  /\ report = NoReport
  /\ transformed = NoTransform
  /\ anomalies = Returned({})
  /\ data_quality = NoDataQuality
  /\ NoMonitor
  /\ retry = NoRetry

AddQualityRow(cells) ==
  /\ pc = "input"
  /\ Len(df) < MaxQualityRows
  /\ df' = Append(df, [idx |-> Len(df), cells |-> [c \in columns |-> cells[c]]])
  /\ UNCHANGED << columns, pc, validation, run, failed_count, processed_count, report,
                  transformed, anomalies, data_quality, monitorVars, retry >>

\* analyzer.calculate_data_quality_metrics(df)
MeasureQuality ==
  /\ pc = "input"
  /\ data_quality' = CalculateDataQualityMetrics(df, columns)
  /\ pc' = "measured"
  /\ UNCHANGED << df, columns, validation, run, failed_count, processed_count, report,
                  transformed, anomalies, monitorVars, retry >>

NextQuality ==
  \/ \E cells \in QualityRows : AddQualityRow(cells)
  \/ MeasureQuality

SpecQuality == InitQuality /\ [][NextQuality]_vars

\* ------------------------------------------------------ monitor.py: the files
MaxClock == 2
MaxEvents == 2

\* a program outside the pipeline writes data to a file of the watch directory:
\* the file appears or grows, its mtime is the time of the write, and a started
\* observer queues the event of it
WriteFile(path, size) ==
  /\ size >= files[path].size
  /\ observer.started => Len(events) < MaxEvents
  /\ files' = [files EXCEPT ![path] = [exists |-> TRUE, size |-> size, mtime |-> clock]]
  /\ events' = IF observer.started
               THEN Append(events, [src_path |-> path,
                                    event_type |-> IF files[path].exists THEN "modified"
                                                   ELSE "created"])
               ELSE events
  /\ UNCHANGED << df, columns, pc, validation, run, failed_count, processed_count, report,
                  transformed, anomalies, data_quality, clock, observer, scanner,
                  processed_files, last_check, is_running, delivered, retry >>

\* time passes
Tick ==
  /\ clock < MaxClock
  /\ clock' = clock + 1
  /\ UNCHANGED << df, columns, pc, validation, run, failed_count, processed_count, report,
                  transformed, anomalies, data_quality, files, events, observer, scanner,
                  processed_files, last_check, is_running, delivered, retry >>

\* process_callback(file_path)
Callback(path) == [delivered EXCEPT ![path] = @ + 1]

\* -------------------------------------------- monitor.py: DirectoryMonitor
\* DirectoryMonitor.start_monitoring up to observer.start(): the observer thread
\* runs from here on
StartObserver ==
  /\ scanner.pc = "constructed"
  /\ ~observer.started
  /\ observer' = [observer EXCEPT !.started = TRUE]
  /\ is_running' = TRUE
  /\ scanner' = [scanner EXCEPT !.pc = "existing"]
  /\ UNCHANGED << df, columns, pc, validation, run, failed_count, processed_count, report,
                  transformed, anomalies, data_quality, files, clock, events,
                  processed_files, last_check, delivered, retry >>

\* DataFileHandler.handle_file_event up to time.sleep(2), on the observer
\* thread: the next event is dropped when its path has no watched extension or
\* is in processed_files
HandleFileEvent ==
  /\ observer.started
  /\ observer.pc = "idle"
  /\ events # << >>
  /\ LET file_path == Head(events).src_path
     IN  observer' = IF ~HasWatchedExtension(file_path) \/ file_path \in processed_files
                     THEN observer
                     ELSE [observer EXCEPT !.pc = "sleeping", !.file_path = file_path]
  /\ events' = Tail(events)
  /\ UNCHANGED << df, columns, pc, validation, run, failed_count, processed_count, report,
                  transformed, anomalies, data_quality, files, clock, scanner,
                  processed_files, last_check, is_running, delivered, retry >>

\* DataFileHandler.handle_file_event after time.sleep(2): a file that exists
\* and is not empty is added to processed_files and passed to the callback
HandleAfterSleep ==
  /\ observer.pc = "sleeping"
  /\ LET file_path == observer.file_path
         ready == files[file_path].exists /\ files[file_path].size > 0
     IN  /\ processed_files' = IF ready THEN processed_files \cup {file_path}
                               ELSE processed_files
         /\ delivered' = IF ready THEN Callback(file_path) ELSE delivered
  /\ observer' = [observer EXCEPT !.pc = "idle", !.file_path = ""]
  /\ UNCHANGED << df, columns, pc, validation, run, failed_count, processed_count, report,
                  transformed, anomalies, data_quality, files, clock, events, scanner,
                  last_check, is_running, retry >>

\* DirectoryMonitor.process_existing_files: the glob over the watch directory
GlobExisting ==
  /\ scanner.pc = "existing"
  /\ scanner' = [pc |-> "existing_loop",
                 todo |-> {path \in Paths : HasWatchedExtension(path) /\ files[path].exists}]
  /\ UNCHANGED << df, columns, pc, validation, run, failed_count, processed_count, report,
                  transformed, anomalies, data_quality, files, clock, events, observer,
                  processed_files, last_check, is_running, delivered, retry >>

\* DirectoryMonitor.process_existing_files: one pass of its loop over
\* existing_files, on the thread that started the monitor
ProcessExistingFile(file_path) ==
  /\ scanner.pc = "existing_loop"
  /\ file_path \in scanner.todo
  /\ processed_files' = processed_files \cup {file_path}
  /\ delivered' = IF file_path \in processed_files THEN delivered ELSE Callback(file_path)
  /\ scanner' = [scanner EXCEPT !.todo = @ \ {file_path}]
  /\ UNCHANGED << df, columns, pc, validation, run, failed_count, processed_count, report,
                  transformed, anomalies, data_quality, files, clock, events, observer,
                  last_check, is_running, retry >>

\* DirectoryMonitor.wait_for_files after start_monitoring returned: the loop
\* while self.is_running: time.sleep(1)
KeepRunning ==
  /\ scanner.pc = "existing_loop"
  /\ scanner.todo = {}
  /\ scanner' = [scanner EXCEPT !.pc = "running"]
  /\ UNCHANGED << df, columns, pc, validation, run, failed_count, processed_count, report,
                  transformed, anomalies, data_quality, files, clock, events, observer,
                  processed_files, last_check, is_running, delivered, retry >>

\* the pipeline processed no file yet
IdlePipeline ==
  /\ df = << >>
  /\ columns = Range(required_columns)
  /\ pc = "loaded"
  /\ validation = NoValidation
  /\ run = NoRun
  /\ failed_count = 0
  /\ processed_count = 0
  /\ report = NoReport
  /\ transformed = NoTransform
  /\ anomalies = Returned({})
  /\ data_quality = NoDataQuality
  /\ retry = NoRetry

\* a DirectoryMonitor was constructed over a watch directory that may hold files
InitDirectory ==
  /\ IdlePipeline
  /\ files \in [Paths -> {NoFile, [exists |-> TRUE, size |-> 0, mtime |-> 0],
                          [exists |-> TRUE, size |-> 1, mtime |-> 0]}]
  /\ clock = 0
  /\ events = << >>
  /\ observer = NoObserver
  /\ scanner = [pc |-> "constructed", todo |-> {}]
  /\ processed_files = {}
  /\ last_check = 0
  /\ is_running = FALSE
  /\ delivered = [path \in Paths |-> 0]

NextDirectory ==
  \/ \E path \in Paths, size \in 0..1 : WriteFile(path, size)
  \/ StartObserver
  \/ HandleFileEvent
  \/ HandleAfterSleep
  \/ GlobExisting
  \/ \E file_path \in Paths : ProcessExistingFile(file_path)
  \/ KeepRunning

SpecDirectory == InitDirectory /\ [][NextDirectory]_vars

\* ---------------------------------------------- monitor.py: PollingMonitor
\* PollingMonitor.__init__
ConstructPolling ==
  /\ scanner.pc = "absent"
  /\ scanner' = [scanner EXCEPT !.pc = "constructed"]
  /\ processed_files' = {}
  /\ last_check' = clock
  /\ is_running' = FALSE
  /\ UNCHANGED << df, columns, pc, validation, run, failed_count, processed_count, report,
                  transformed, anomalies, data_quality, files, clock, events, observer,
                  delivered, retry >>

\* PollingMonitor.start_monitoring up to its loop: without a poll_interval it
\* reads config.MONITOR_INTERVAL, which config.py does not define, and the
\* AttributeError leaves the monitor before is_running is set
StartPolling(given) ==
  /\ scanner.pc = "constructed"
  /\ ~observer.started
  /\ scanner' = [scanner EXCEPT !.pc = IF given THEN "scan" ELSE "raised"]
  /\ is_running' = given
  /\ UNCHANGED << df, columns, pc, validation, run, failed_count, processed_count, report,
                  transformed, anomalies, data_quality, files, clock, events, observer,
                  processed_files, last_check, delivered, retry >>

\* PollingMonitor.scan_directory: current_files from the glob, and new_files
ScanDirectory ==
  /\ scanner.pc = "scan"
  /\ is_running
  /\ LET current_files == {path \in Paths : HasWatchedExtension(path) /\ files[path].exists}
         new_files == current_files \ processed_files
     IN  scanner' = [pc |-> "scan_loop", todo |-> new_files]
  /\ UNCHANGED << df, columns, pc, validation, run, failed_count, processed_count, report,
                  transformed, anomalies, data_quality, files, clock, events, observer,
                  processed_files, last_check, is_running, delivered, retry >>

\* PollingMonitor.scan_directory: one pass of its loop over new_files; a file
\* is added and passed to the callback when it exists, is not empty and was
\* modified at or after last_check
ScanFile(file_path) ==
  /\ scanner.pc = "scan_loop"
  /\ file_path \in scanner.todo
  /\ LET recent == /\ files[file_path].exists
                   /\ files[file_path].size > 0
                   /\ files[file_path].mtime >= last_check
     IN  /\ processed_files' = IF recent THEN processed_files \cup {file_path}
                               ELSE processed_files
         /\ delivered' = IF recent THEN Callback(file_path) ELSE delivered
  /\ scanner' = [scanner EXCEPT !.todo = @ \ {file_path}]
  /\ UNCHANGED << df, columns, pc, validation, run, failed_count, processed_count, report,
                  transformed, anomalies, data_quality, files, clock, events, observer,
                  last_check, is_running, retry >>

\* PollingMonitor.scan_directory: self.last_check = datetime.now() after the loop
ScanEnd ==
  /\ scanner.pc = "scan_loop"
  /\ scanner.todo = {}
  /\ last_check' = clock
  /\ scanner' = [scanner EXCEPT !.pc = "sleep"]
  /\ UNCHANGED << df, columns, pc, validation, run, failed_count, processed_count, report,
                  transformed, anomalies, data_quality, files, clock, events, observer,
                  processed_files, is_running, delivered, retry >>

\* PollingMonitor.start_monitoring: time.sleep(poll_interval) returns and the
\* loop goes round
SleepEnd ==
  /\ scanner.pc = "sleep"
  /\ scanner' = [scanner EXCEPT !.pc = "scan"]
  /\ UNCHANGED << df, columns, pc, validation, run, failed_count, processed_count, report,
                  transformed, anomalies, data_quality, files, clock, events, observer,
                  processed_files, last_check, is_running, delivered, retry >>

\* the steps of the thread that runs PollingMonitor
PollingThread ==
  \/ ConstructPolling
  \/ \E given \in BOOLEAN : StartPolling(given)
  \/ ScanDirectory
  \/ \E file_path \in Paths : ScanFile(file_path)
  \/ ScanEnd
  \/ SleepEnd

\* nothing ran yet: the watch directory is empty and no monitor exists
InitPolling == IdlePipeline /\ NoMonitor

NextPolling ==
  \/ \E path \in Paths, size \in 0..1 : WriteFile(path, size)
  \/ Tick
  \/ PollingThread

SpecPolling == InitPolling /\ [][NextPolling]_vars

\* the thread of the monitor is scheduled as long as it has a step to take
SpecPollingFair == SpecPolling /\ WF_vars(PollingThread)

\* ------------------------------------------------- main.py: the retry
\* config.MAX_RETRIES and config.RETRY_DELAY
MAX_RETRIES == 3
RETRY_DELAY == 5

MaxRetryRows == 1

\* no call was made yet and the file to process has no rows yet
InitRetry ==
  /\ df = << >>
  /\ columns \in ColumnSets
  /\ pc = "loaded"
  /\ validation = NoValidation
  /\ run = NoRun
  /\ failed_count = 0
  /\ processed_count = 0
  /\ report = NoReport
  /\ transformed = NoTransform
  /\ anomalies = Returned({})
  /\ data_quality = NoDataQuality
  /\ NoMonitor
  /\ retry = NoRetry

\* the file the call will be given gets one more row
AddRetryRow(cells) ==
  /\ retry.pc = "idle"
  /\ Len(df) < MaxRetryRows
  /\ df' = Append(df, [idx |-> Len(df), cells |-> cells])
  /\ UNCHANGED << columns, pc, validation, run, failed_count, processed_count, report,
                  transformed, anomalies, data_quality, monitorVars, retry >>

\* process_file_with_retry(file_path) up to the loop of retry_with_backoff:
\* func is process_file and max_retries is config.MAX_RETRIES
ProcessFileWithRetry ==
  /\ retry.pc = "idle"
  /\ retry' = [NoRetry EXCEPT !.pc = "attempt", !.func = "process_file"]
  /\ UNCHANGED << df, columns, pc, validation, run, failed_count, processed_count, report,
                  transformed, anomalies, data_quality, monitorVars >>

\* retry_with_backoff(func) up to its loop, for another function
RetryWithBackoff ==
  /\ retry.pc = "idle"
  /\ retry' = [NoRetry EXCEPT !.pc = "attempt", !.func = "func"]
  /\ UNCHANGED << df, columns, pc, validation, run, failed_count, processed_count, report,
                  transformed, anomalies, data_quality, monitorVars >>

\* one pass of the loop of retry_with_backoff: func is called; its value is
\* returned; its exception is raised again on the last attempt, where
\* process_file_with_retry turns it into False, and otherwise answered by
\* time.sleep(config.RETRY_DELAY * (2 ** attempt))
Attempt(readable, fs, fails) ==
  /\ retry.pc = "attempt"
  /\ retry.func = "func" => readable /\ fs = "ok"
  /\ retry.func = "process_file" => ~fails
  /\ run' = IF retry.func = "process_file"
            THEN ProcessFile(df, columns, readable, fs)
            ELSE [NoRun EXCEPT !.status = IF fails THEN "raised" ELSE "returned",
                               !.result = ~fails]
  /\ validation' = run'.validation
  /\ failed_count' = failed_count + run'.failed
  /\ retry' =
       IF run'.status = "returned"
       THEN [retry EXCEPT !.pc = "done", !.invocations = @ + 1, !.result = run'.result]
       ELSE IF retry.attempt = MAX_RETRIES - 1
       THEN [retry EXCEPT !.pc = "done", !.invocations = @ + 1, !.result = FALSE,
                          !.raised = retry.func # "process_file"]
       ELSE [retry EXCEPT !.pc = "sleeping", !.invocations = @ + 1,
                          !.sleeps = Append(@, RETRY_DELAY * (2 ^ retry.attempt))]
  /\ UNCHANGED << df, columns, pc, processed_count, report, transformed, anomalies,
                  data_quality, monitorVars >>

\* time.sleep(wait_time) returns and the loop goes on with the next attempt
NextAttempt ==
  /\ retry.pc = "sleeping"
  /\ retry' = [retry EXCEPT !.pc = "attempt", !.attempt = @ + 1]
  /\ UNCHANGED << df, columns, pc, validation, run, failed_count, processed_count, report,
                  transformed, anomalies, data_quality, monitorVars >>

NextRetry ==
  \/ \E cells \in InputRows : AddRetryRow(cells)
  \/ ProcessFileWithRetry
  \/ RetryWithBackoff
  \/ \E readable \in BOOLEAN, fs \in FsOutcomes, fails \in BOOLEAN : Attempt(readable, fs, fails)
  \/ NextAttempt

SpecRetry == InitRetry /\ [][NextRetry]_vars

\* ------------------------------------------------------------------ claims
RuleColumns == {validation_rules[j].column : j \in 1..Len(validation_rules)}

RuleOf(c) == CHOOSE r \in Range(validation_rules) : r.column = c

\* the row indices of a table, in order
Indices(t) == [i \in 1..Len(t) |-> t[i].idx]

\* a row that meets the required-field and range rules: every required column
\* present and holding a value, a timestamp that parses, a location that is
\* neither empty nor 'nan', every metric value that is present inside its rule
RowIsValid(cells, cols) ==
  /\ \A c \in Range(required_columns) : c \in cols
  /\ \A c \in Range(required_columns) \ {"location_id", "timestamp"} : ~IsNa(cells[c])
  /\ cells["location_id"].k = "text" /\ cells["location_id"].s \notin {"", "nan"}
  /\ ~IsNa(ToDatetime(cells["timestamp"]))
  /\ \A c \in RuleColumns \cap cols :
        \/ IsNa(cells[c])
        \/ cells[c].k = "num" /\ RuleOf(c).min <= cells[c].n /\ cells[c].n <= RuleOf(c).max

\* a row as the type step is specified to leave it: a value of a metric column
\* that is no number is null
CoercedCells(cells) ==
  [c \in DOMAIN cells |->
     IF c \in RuleColumns /\ cells[c].k \notin {"null", "num"} THEN Null ELSE cells[c]]

CoercedTable(t) == [i \in 1..Len(t) |-> [t[i] EXCEPT !.cells = CoercedCells(t[i].cells)]]

\* the positions of the rows of t that fail the required-field or range checks
FailingRows(t, cols) == {i \in 1..Len(t) : ~RowIsValid(CoercedCells(t[i].cells), cols)}

Validated == pc = "validated"

\* validate_data decided to quarantine and returned (empty table, False)
QuarantinedEmpty ==
  /\ validation.status = "returned"
  /\ validation.quarantine.called
  /\ validation.table = << >>
  /\ ~validation.accepted

\* C1: for a table without all-null rows, validate quarantines and returns
\* (empty table, accepted = false) exactly when more than half of the rows fail
\* the required-field or range checks; otherwise it accepts and returns the
\* rows that pass.
C1_QuarantineIffMajorityFails ==
  (Validated /\ DropAllNullRows(df, columns) = df) =>
     LET failing == Cardinality(FailingRows(df, columns))
     IN /\ QuarantinedEmpty <=> (2 * failing > Len(df))
        /\ (Len(df) > 0 /\ 2 * failing <= Len(df)) =>
              /\ validation.status = "returned"
              /\ validation.accepted
              /\ Len(validation.table) = Len(df) - failing

\* C2: whenever validate returns, the quarantine decision counts the rows left
\* after the all-null rows are dropped: a table whose remaining rows are at
\* most 50% invalid is accepted whatever the number of all-null rows.
C2_DecisionUsesPostCleanupCount ==
  LET cleaned == DropAllNullRows(df, columns)
  IN (/\ Validated
      /\ validation.status = "returned"
      /\ cleaned # << >>
      /\ 2 * Cardinality(FailingRows(cleaned, columns)) <= Len(cleaned))
     => (validation.accepted /\ ~validation.quarantine.called)

\* C3: when validate accepts, the returned table holds exactly the rows left
\* after cleanup that are valid (required columns non-null, location neither
\* empty nor 'nan', every present metric value within the inclusive bounds of
\* its rule), in their order and with the metric values unchanged.
C3_AcceptedTableIsExactlyValidRows ==
  (pc \in {"validated", "processed"} /\ validation.status = "returned" /\ validation.accepted) =>
     LET cleaned == DropAllNullRows(df, columns)
         expected == SelectRows(cleaned,
                       {i \in 1..Len(cleaned) : RowIsValid(cleaned[i].cells, columns)})
     IN /\ Indices(validation.table) = Indices(expected)
        /\ \A k \in 1..Len(expected) : \A c \in RuleColumns \cap columns :
              validation.table[k].cells[c] = expected[k].cells[c]

\* an accepted file of three rows: one on the bounds of its rules and with a
\* missing optional metric is returned, one out of range is left out
C3_Witness ==
  /\ Validated /\ validation.accepted /\ Len(df) = 3 /\ Len(validation.table) = 2
  /\ \E k \in 1..Len(validation.table) :
        /\ validation.table[k].cells["temperature_celsius"] = Num(TEMP_MAX)
        /\ IsNa(validation.table[k].cells["air_quality_index"])
  /\ \E i \in 1..Len(df) : df[i].cells["temperature_celsius"] = Num(TEMP_MAX + 1)

\* C4: every call of validate on a file with rows that returns accepted = false
\* has quarantined the file with a manifest of reasons, also when removing the
\* all-null rows empties the table.
C4_RejectionQuarantinesWithManifest ==
  (Validated /\ validation.status = "returned" /\ ~validation.accepted /\ Len(df) > 0) =>
     (validation.quarantine.called /\ validation.quarantine.errors # << >>)

RECURSIVE IsSubSeq(_, _)
\* a occurs in b, in order
IsSubSeq(a, b) ==
  IF a = << >> THEN TRUE
  ELSE IF b = << >> THEN FALSE
  ELSE IF Head(a) = Head(b) THEN IsSubSeq(Tail(a), Tail(b))
  ELSE IsSubSeq(a, Tail(b))

\* C5: the manifest written on quarantine lists every violation description
\* accumulated so far, in the order detected.
C5_ManifestListsAccumulatedErrors ==
  (Validated /\ validation.quarantine.manifest_written) =>
     IsSubSeq(validation.all_errors, validation.quarantine.manifest)

StructureBroken ==
  \/ \E c \in Range(required_columns) : c \notin columns
  \/ Range(env_columns) \cap columns = {}

\* C6: when a required column is absent or no environmental column is present,
\* validate quarantines and returns (empty table, false) whatever the rows
\* hold, without running the type, required-field or range steps.
C6_BrokenStructureQuarantines ==
  (Validated /\ Len(df) > 0 /\ StructureBroken) =>
     /\ QuarantinedEmpty
     /\ Range(validation.steps) \cap {"types", "required", "ranges"} = {}

\* C7: a value of a metric column that is no number becomes null: validate
\* does not raise, and decides as it does for the table with a null in its place.
C7_NonNumericMetricBecomesNull ==
  Validated =>
     LET coerced == ValidateData(CoercedTable(df), columns, "ok")
     IN /\ validation.status = "returned"
        /\ validation.accepted = coerced.accepted
        /\ Indices(validation.table) = Indices(coerced.table)

\* C8: a file that process_file reports as a success has gone through the
\* Validator, then the Transformer, then the Analyzer.
C8_SuccessRanAllStages ==
  (pc = "processed" /\ run.result) =>
     run.stages = << "load", "validate", "transform", "analyze" >>

\* the exceptions the sub-analyses raise on the table
SubAnalysisExceptions ==
  LET basic == CalculateBasicStatistics(df, columns)
      corr == CalculateCorrelationMatrix(df, columns)
      anom == DetectAnomalies(df, columns)
      temporal == AnalyzeTemporalPatterns(df, columns)
  IN (IF basic.raised THEN {basic.exc} ELSE {})
       \cup (IF corr.raised THEN {corr.exc} ELSE {})
       \cup (IF anom.raised THEN {anom.exc} ELSE {})
       \cup (IF temporal.raised THEN {temporal.exc} ELSE {})

\* C9: analyze never raises: it returns a report with the file name, the data
\* source and the timestamp, and when a sub-analysis raises, the text of an
\* exception raised is in the error field.
C9_AnalyzeNeverRaises ==
  (pc = "analyzed") =>
     /\ report.status = "returned"
     /\ report.file_name = FILE_NAME
     /\ report.data_source = DATA_SOURCE
     /\ report.analysis_timestamp # ""
     /\ LET raised == SubAnalysisExceptions
        IN /\ raised # {} => (report.has_error /\ report.error \in raised)
           /\ raised = {} => ~report.has_error

\* a report returned although a sub-analysis raised TypeError on a text value
C9_Witness ==
  /\ pc = "analyzed"
  /\ report.status = "returned"
  /\ report.has_error
  /\ report.error = "TypeError"
  /\ report.file_name = FILE_NAME

\* the temporal patterns raise on the table and no other sub-analysis does
OnlyTemporalPatternsRaise ==
  /\ AnalyzeTemporalPatterns(df, columns).raised
  /\ ~CalculateBasicStatistics(df, columns).raised
  /\ ~CalculateCorrelationMatrix(df, columns).raised
  /\ ~DetectAnomalies(df, columns).raised

\* C10: when only the temporal patterns raise, the other sub-analyses still run:
\* the data quality and the aggregated metric records of the report are the
\* computed ones.
C10_OtherAnalysesStillRun ==
  (pc = "analyzed" /\ OnlyTemporalPatternsRaise) =>
     /\ report.data_quality = CalculateDataQualityMetrics(df, columns)
     /\ report.aggregated_metrics =
          GenerateAggregatedMetrics(df, columns, FILE_NAME, DATA_SOURCE).value

\* ------------------------------------------------- claims on the transformer
\* transform_data returned a table
Transformed == pc = "transformed" /\ transformed.status = "returned"

\* the cell of the input table under the header that standardizes to column c,
\* in the row with original index idx
SourceCell(idx, c) ==
  df[idx + 1].cells[CHOOSE header \in columns : StandardName(header) = c]

StandardColumns == {StandardName(c) : c \in columns}

\* C11: transform never drops or duplicates a row: the output has as many
\* rows as the input and the same set of original row indices.
C11_TransformKeepsEveryRow ==
  Transformed =>
     /\ Len(transformed.rows) = Len(df)
     /\ Range(Indices(transformed.rows)) = Range(Indices(df))
     /\ Cardinality(Range(Indices(transformed.rows))) = Len(transformed.rows)

\* a table with a row that has no timestamp went through the sort of the
\* interpolation step and came back in another order
C11_Witness ==
  /\ Transformed
  /\ "timestamp" \in columns
  /\ \E i \in 1..Len(df) : IsNa(df[i].cells["timestamp"])
  /\ Indices(transformed.rows) # Indices(df)

\* C12: transform does not reorder rows: the rows of the returned table are
\* in the order of the rows of the input.
C12_TransformKeepsRowOrder ==
  Transformed => Indices(transformed.rows) = Indices(df)

\* C13: no stage mutates the table it is given: a step that calls validate,
\* transform or analyze leaves the caller's table with the same columns, rows
\* and cells.
C13_StagesLeaveArgumentUnchanged ==
  [][(pc = "input" /\ pc' \in {"validated", "transformed", "analyzed"})
       => (df' = df /\ columns' = columns)]_vars

\* transform returned a table with renamed and added columns and another row
\* order, while the caller still holds the table it passed in
C13_Witness ==
  /\ Transformed
  /\ "Stress Level" \in columns
  /\ "mental_health_risk" \in transformed.cols
  /\ Len(df) > 1
  /\ Indices(transformed.rows) # Indices(df)

\* C14: for every row whose stress_level, sleep_hours and mood_score are
\* non-null, whatever their values, mental_health_risk lies in [0,1], and it
\* is exactly 0 for stress_level=0, sleep_hours=8, mood_score=3.
C14_RiskWithinUnitInterval ==
  (Transformed /\ "mental_health_risk" \in transformed.cols) =>
     \A i \in 1..Len(transformed.rows) :
        LET row == transformed.rows[i]
            stress == SourceCell(row.idx, "stress_level")
            sleep == SourceCell(row.idx, "sleep_hours")
            mood == SourceCell(row.idx, "mood_score")
            risk == row.cells["mental_health_risk"]
        IN (~IsNa(stress) /\ ~IsNa(sleep) /\ ~IsNa(mood)) =>
              /\ FLe(Num(0), risk) /\ FLe(risk, Num(1))
              /\ (stress = Num(0) /\ sleep = Num(8) /\ mood = Num(3)) => risk = Num(0)

\* the value, or the given one when it is missing
OrElse(cell, default) == IF IsNa(cell) THEN default ELSE cell

\* C15: when stress_level, sleep_hours or mood_score of a row is missing,
\* mental_health_risk is computed with the neutral value (stress=0, sleep=8,
\* mood=3) in its place, so it is never null.
C15_MissingRiskInputIsNeutral ==
  (Transformed /\ "mental_health_risk" \in transformed.cols) =>
     \A i \in 1..Len(transformed.rows) :
        LET row == transformed.rows[i]
            stress == SourceCell(row.idx, "stress_level")
            sleep == SourceCell(row.idx, "sleep_hours")
            mood == SourceCell(row.idx, "mood_score")
        IN row.cells["mental_health_risk"] =
             CalculateMentalHealthRisk(
               [stress_level |-> OrElse(stress, Num(0)),
                sleep_hours |-> OrElse(sleep, Num(8)),
                mood_score |-> OrElse(mood, Num(3))])

\* C16: when temperature, humidity or noise level of a row is missing,
\* comfort_index is computed with the ideal value (22, 50, 50) in its place;
\* a missing noise level counts with the sub-score (70-50)/70, not 0.
C16_MissingComfortInputIsIdeal ==
  (Transformed /\ "comfort_index" \in transformed.cols) =>
     \A i \in 1..Len(transformed.rows) :
        LET row == transformed.rows[i]
            temp == SourceCell(row.idx, "temperature_celsius")
            humidity == SourceCell(row.idx, "humidity_percent")
            noise == SourceCell(row.idx, "noise_level_db")
        IN row.cells["comfort_index"] =
             CalculateComfortIndex(
               [temperature_celsius |-> OrElse(temp, Num(22)),
                humidity_percent |-> OrElse(humidity, Num(50)),
                noise_level_db |-> OrElse(noise, Num(50))])

\* handle_outliers was called on the table
CappedStep == pc = "capped"

\* C17: after the outlier-capping step, in every metric column present, every
\* non-null value lies within [Q1 - 3*IQR, Q3 + 3*IQR] of the column before
\* capping; a value inside the bounds is unchanged, a value outside is
\* exactly the violated bound, a null stays null and no row is removed.
C17_CappingKeepsValuesWithinBounds ==
  CappedStep =>
     /\ Indices(transformed.rows) = Indices(df)
     /\ \A c \in Range(metric_columns) \cap columns :
           LET before == Column(df, c)
               after == Column(transformed.rows, c)
               Q1 == Quantile(before, 1, 4)
               Q3 == Quantile(before, 3, 4)
               lower == FSub(Q1, FMul(Num(3), FSub(Q3, Q1)))
               upper == FAdd(Q3, FMul(Num(3), FSub(Q3, Q1)))
           IN \A i \in 1..Len(before) :
                 IF IsNa(before[i]) THEN IsNa(after[i])
                 ELSE /\ FLe(lower, after[i]) /\ FLe(after[i], upper)
                      /\ (FLe(lower, before[i]) /\ FLe(before[i], upper))
                            => after[i] = before[i]
                      /\ FLt(before[i], lower) => after[i] = lower
                      /\ FLt(upper, before[i]) => after[i] = upper

\* a column with a null and a value above the upper bound was capped
C17_Witness ==
  /\ CappedStep
  /\ \E i \in 1..Len(df) : IsNa(df[i].cells["stress_level"])
  /\ \E i \in 1..Len(df) :
        /\ ~IsNa(df[i].cells["stress_level"])
        /\ FLt(transformed.rows[i].cells["stress_level"], df[i].cells["stress_level"])

\* the missing values of a column that lie between two known values
InteriorMissing(xs) ==
  {i \in 1..Len(xs) : IsNa(xs[i]) /\ PrevValid(xs, i) # 0 /\ NextValid(xs, i) # 0}

\* C18: in a run of consecutive missing values bounded by known values,
\* linear interpolation fills at most the first 5; a later one is filled by
\* forward fill, that is with the last linearly filled value, rather than
\* with its own linear value.
C18_LinearFillStopsAfterFive ==
  pc = "filled" =>
     LET before == Column(df, "temperature_celsius")
         after == Column(transformed.rows, "temperature_celsius")
     IN \A i \in InteriorMissing(before) :
           LET p == PrevValid(before, i)
           IN IF i - p <= 5 THEN after[i] = LinearValue(before, i)
              ELSE after[i] = LinearValue(before, p + 5)

\* ---------------------------------------------------- claims on the analyzer
\* the non-null cells of a metric in the rows of a location
LocationSamples(location, metric) ==
  DropNa(SelectRows(df, {i \in 1..Len(df) : df[i].cells["location_id"] = Text(location)}),
         metric)

\* C19: in basic statistics, every group reports every available metric; with
\* exactly one non-null sample std and variance are exactly 0.0, with none
\* the all-zero structure is reported.
C19_FewSamplesReportZeroSpread ==
  (pc = "analyzed" /\ "location_id" \in columns) =>
     \A g \in 1..Len(report.basic_statistics) :
        LET group == report.basic_statistics[g]
            available == AvailableMetrics(columns)
        IN /\ Len(group.stats) = Len(available)
           /\ \A j \in 1..Len(available) :
                 LET entry == group.stats[j]
                     samples == LocationSamples(group.group, available[j])
                 IN /\ entry.metric = available[j]
                    /\ entry.count = Len(samples)
                    /\ Len(samples) = 1 => (entry.std = Num(0) /\ entry.variance = Num(0))
                    /\ Len(samples) = 0 =>
                          (entry.min = 0 /\ entry.max = 0
                           /\ entry.std = Num(0) /\ entry.variance = Num(0))

\* a location with one sample of one metric and none of another was analysed
C19_Witness ==
  /\ pc = "analyzed"
  /\ "location_id" \in columns
  /\ \E g \in 1..Len(report.basic_statistics) :
        \E j, k \in 1..Len(report.basic_statistics[g].stats) :
           /\ report.basic_statistics[g].stats[j].count = 1
           /\ report.basic_statistics[g].stats[k].count = 0
  /\ \E g \in 1..Len(report.basic_statistics) :
        \E j \in 1..Len(report.basic_statistics[g].stats) :
           /\ report.basic_statistics[g].stats[j].count > 1
           /\ report.basic_statistics[g].stats[j].variance # Num(0)

\* C20: detect_anomalies reports an entry for a metric exactly when the column
\* is present and has more than 10 non-null samples; total_readings is the
\* sample count and each anomaly count lies between 0 and total_readings.
C20_AnomalyEntryIffMoreThanTenSamples ==
  (pc = "detected" /\ ~anomalies.raised) =>
     \A m \in Range(metric_columns) :
        LET entries == {e \in anomalies.value : e.metric = m}
            count == IF m \in columns THEN Len(DropNa(df, m)) ELSE 0
        IN /\ (entries # {}) <=> (m \in columns /\ count > 10)
           /\ Cardinality(entries) <= 1
           /\ \A e \in entries :
                 /\ e.total_readings = count
                 /\ 0 <= e.z_score_anomalies /\ e.z_score_anomalies <= count
                 /\ 0 <= e.iqr_anomalies /\ e.iqr_anomalies <= count

\* one metric with 11 samples, one of them an anomaly, has an entry while a
\* metric with 10 samples has none
C20_Witness ==
  /\ pc = "detected"
  /\ "mood_score" \in columns
  /\ Len(DropNa(df, "mood_score")) = 10
  /\ Len(DropNa(df, "stress_level")) = 11
  /\ \E e \in anomalies.value :
        e.metric = "stress_level" /\ e.total_readings = 11 /\ e.z_score_anomalies = 1
  /\ ~\E e \in anomalies.value : e.metric = "mood_score"

\* the null cells of the table, counted row by row
NullCells == IntSum([i \in 1..Len(df) |-> Cardinality({c \in columns : IsNa(df[i].cells[c])})])

\* C21: for every non-empty table, calculate_data_quality_metrics reports
\* total_missing_values equal to the number of null cells, total_rows equal to
\* the row count, and overall_completeness equal to the percentage of non-null
\* cells rounded to 2 decimals (held in hundredths: within half a hundredth
\* of the exact percentage).
C21_QualityCountsAndCompleteness ==
  (pc = "measured" /\ Len(df) > 0) =>
     LET total_cells == Len(df) * Cardinality(columns)
     IN /\ data_quality.computed
        /\ data_quality.total_missing_values = NullCells
        /\ data_quality.total_rows = Len(df)
        /\ 2 * Abs(data_quality.overall_completeness * total_cells
                   - (total_cells - NullCells) * 10000) <= total_cells

\* C21 witness: a table of 100 cells with 10 nulls is measured and reports 90.00
C21_Witness ==
  /\ pc = "measured"
  /\ Len(df) * Cardinality(columns) = 100
  /\ NullCells = 10
  /\ data_quality.overall_completeness = 9000

\* analyze_data returned a report in which every sub-analysis ran
AnalyzedInFull == pc = "analyzed" /\ report.status = "returned" /\ ~report.has_error

\* the (location, metric) entries of the per-location basic statistics
StatEntries ==
  UNION { { [location |-> report.basic_statistics[g].group,
             stat |-> report.basic_statistics[g].stats[j]] :
            j \in 1..Len(report.basic_statistics[g].stats) } :
          g \in 1..Len(report.basic_statistics) }

\* the aggregated records are exactly one record per entry of the given set
OneRecordPerEntry(entries) ==
  /\ {<< r.location_id, r.metric_name >> : r \in Range(report.aggregated_metrics)}
       = {<< e.location, e.stat.metric >> : e \in entries}
  /\ Len(report.aggregated_metrics) = Cardinality(entries)

\* C22 as claimed: the aggregated metric records are exactly one record for
\* every (location, metric) entry of the per-location basic statistics,
\* entries without non-null samples included, and no other record.
C22_RecordForEveryEntry == AnalyzedInFull => OneRecordPerEntry(StatEntries)

\* C22 amended: the aggregated metric records are exactly one record for every
\* (location, metric) entry whose count is above 0, carrying the min, max and
\* count of that entry and the provenance of the file; entries without
\* non-null samples have no record.
C22_RecordForEveryEntryWithSamples ==
  AnalyzedInFull =>
     /\ OneRecordPerEntry({e \in StatEntries : e.stat.count > 0})
     /\ \A r \in Range(report.aggregated_metrics) :
          /\ r.file_name = FILE_NAME /\ r.data_source = DATA_SOURCE
          /\ \E e \in StatEntries :
               /\ e.location = r.location_id /\ e.stat.metric = r.metric_name
               /\ e.stat.min = r.min_value /\ e.stat.max = r.max_value
               /\ e.stat.count = r.count

\* C22 witness: a full report with an entry without samples and with records
C22_Witness ==
  /\ AnalyzedInFull
  /\ \E e \in StatEntries : e.stat.count = 0
  /\ report.aggregated_metrics # << >>

RECURSIVE SquaredDeviations(_, _)
\* the sum of the squared deviations of the samples xs from the value m
SquaredDeviations(xs, m) ==
  IF xs = << >> THEN Num(0)
  ELSE FAdd(FMul(FSub(Head(xs), m), FSub(Head(xs), m)), SquaredDeviations(Tail(xs), m))

\* every entry of basic statistics with at least 2 samples reports as variance
\* the squared deviations from the mean divided by the samples less ddof, and
\* as standard deviation its square root
SpreadDividesBy(ddof) ==
  (pc = "analyzed" /\ "location_id" \in columns) =>
     \A e \in StatEntries :
        LET samples == LocationSamples(e.location, e.stat.metric)
            spread == FDiv(SquaredDeviations(samples, Mean(samples)),
                           Num(Len(samples) - ddof))
        IN Len(samples) >= 2 => (e.stat.variance = spread /\ e.stat.std = Sqrt(spread))

\* C23 as claimed: for a group with at least 2 non-null samples basic
\* statistics reports the population variance and standard deviation (the
\* squared deviations divided by n); the samples {0, 2} report variance 1.
C23_PopulationSpread == SpreadDividesBy(0)

\* C23 amended: for a group with at least 2 non-null samples basic statistics
\* reports the sample variance and standard deviation (the squared deviations
\* divided by n - 1); the samples {0, 2} report variance 2.
C23_SampleSpread == SpreadDividesBy(1)

\* C23 witness: a location with the two stress samples 50 and 0 was analysed
\* and reports the variance 1250
C23_Witness ==
  /\ pc = "analyzed"
  /\ "location_id" \in columns
  /\ \E e \in StatEntries :
        /\ e.stat.metric = "stress_level"
        /\ e.stat.count = 2
        /\ e.stat.variance = Num(1250)
        /\ {x.n : x \in Range(LocationSamples(e.location, "stress_level"))} = {0, 50}

\* the cells of column c of the transformed table
Filled(c) == [i \in 1..Len(transformed.rows) |-> transformed.rows[i].cells[c]]

\* C24: after transform returns, every environmental metric column with at
\* least one non-null value in the input contains no missing value, whatever
\* the length and position of the missing runs; a column that was entirely
\* null stays entirely null, and in the other metric columns exactly the
\* cells that were missing are missing.
C24_EnvironmentalColumnsAreFilled ==
  Transformed =>
     /\ \A c \in Range(env_columns) \cap StandardColumns :
          IF \E i \in 1..Len(df) : ~IsNa(SourceCell(i - 1, c))
          THEN \A i \in 1..Len(transformed.rows) : ~IsNa(Filled(c)[i])
          ELSE \A i \in 1..Len(transformed.rows) : IsNa(Filled(c)[i])
     /\ \A c \in (Range(metric_columns) \ Range(env_columns)) \cap StandardColumns :
          \A i \in 1..Len(transformed.rows) :
             IsNa(Filled(c)[i]) <=> IsNa(SourceCell(transformed.rows[i].idx, c))

\* C24 witness: a temperature column whose only value follows a leading gap
\* of 6 and precedes a trailing gap of 5 was transformed, next to a stress
\* column with the same gaps; the interpolation alone leaves the first cell
\* missing
C24_Witness ==
  /\ Transformed
  /\ Len(df) = 12
  /\ \A i \in 1..12 : IsNa(df[i].cells["temperature_celsius"]) <=> i # 7
  /\ IsNa(Interpolate(Column(df, "temperature_celsius"))[1])
  /\ \A i \in 1..12 : IsNa(df[i].cells["stress_level"]) <=> i # 7

\* ---------------------------------------------- more claims on the validator
\* validate ran on a non-empty file that has the location identifier, the
\* timestamp and all nine metric columns but no mental_health_status column,
\* and whose rows are valid in every column they have
ValidatedWithoutLabel ==
  /\ Validated
  /\ columns = AllColumns \ {"mental_health_status"}
  /\ df # << >>
  /\ \A i \in 1..Len(df) : RowIsValid(df[i].cells, AllColumns)

\* C25 as claimed: a table with the location identifier, the timestamp, all
\* nine metric columns and valid rows but no mental_health_status column passes
\* the structural check and is not quarantined.
C25_LabelIsOptional ==
  ValidatedWithoutLabel =>
     /\ validation.status = "returned"
     /\ Len(validation.steps) > 2
     /\ ~validation.quarantine.called

\* C25 amended: the label column is required: such a table fails the
\* structural check with the error that names mental_health_status as missing,
\* is handed to quarantine_file and comes back as (empty table, accepted = false).
C25_LabelIsRequired ==
  ValidatedWithoutLabel =>
     /\ validation.status = "returned"
     /\ validation.steps = << "clean", "structure" >>
     /\ validation.all_errors =
          << Err("Missing required columns", "", 0, 0, << "mental_health_status" >>) >>
     /\ validation.quarantine.called
     /\ validation.quarantine.errors = validation.all_errors
     /\ validation.table = << >> /\ ~validation.accepted

\* C25 witness: two valid rows under a header without the label were validated
C25_Witness == ValidatedWithoutLabel /\ Len(df) = 2 /\ df[1].cells # df[2].cells

\* validate_data returned through its last return statement
FinalReturn ==
  /\ Validated
  /\ validation.status = "returned"
  /\ validation.steps = << "clean", "structure", "types", "required", "ranges" >>
  /\ ~validation.quarantine.called

\* C26: whenever validate returns through its final (non-quarantine) return,
\* the returned table is non-empty and accepted is true; the outcome
\* (accepted = false, file not quarantined) is reached only on the path where
\* the removal of empty rows empties the table.
C26_FinalReturnAccepts ==
  /\ FinalReturn => (validation.table # << >> /\ validation.accepted)
  /\ (Validated /\ validation.status = "returned" /\ ~validation.accepted
        /\ ~validation.quarantine.called) =>
       (validation.steps = << "clean" >> /\ Empty(DropAllNullRows(df, columns), columns))

\* C26 witness: a file with as many invalid rows as valid ones went through
\* the final return, and the valid half came back accepted
C26_Witness ==
  /\ FinalReturn
  /\ Len(df) = 2 * Len(validation.table)
  /\ validation.invalid_log.written

\* the typed table that validate_data hands to validate_required_fields
TypedInput == ValidateDataTypes(DropAllNullRows(df, columns), columns).table

\* the rows of a typed table that the required-field rule marks: a required
\* column of the row is missing
MarkedByRequiredRule(typed) ==
  {i \in 1..Len(typed) :
     \E c \in Range(required_columns) : ColInvalid(c, typed[i].cells[c])}

\* C27: in any table that passed the structural check, the rule on rows with
\* all available environmental columns null marks no row that the
\* required-field rule had not marked: no such error is reported, the rows the
\* required-field step rejects are the rows with a missing required column,
\* and every row it lets through has a non-null environmental value.
C27_EnvironmentalRuleMarksNothingNew ==
  (Validated /\ Len(validation.steps) > 2) =>
     LET typed == TypedInput
         required == ValidateRequiredFields(typed, columns)
     IN /\ \A k \in 1..Len(validation.all_errors) :
             validation.all_errors[k].kind
               # "Found rows with all environmental readings missing"
        /\ required.invalid = SelectRows(typed, MarkedByRequiredRule(typed))
        /\ \A k \in 1..Len(required.valid) :
             \E c \in Range(env_columns) \cap columns : ~IsNa(required.valid[k].cells[c])

\* C27 witness: a table passed the structural check with one row that misses a
\* required field and one row that misses an environmental reading only
C27_Witness ==
  /\ Validated
  /\ Len(validation.steps) > 2
  /\ LET typed == TypedInput
     IN /\ MarkedByRequiredRule(typed) # {}
        /\ \E i \in (1..Len(typed)) \ MarkedByRequiredRule(typed) :
              \E c \in Range(env_columns) \cap columns : IsNa(typed[i].cells[c])

\* ------------------------------------------------------ claims on the monitor
\* C28: DirectoryMonitor passes a file path to the processing callback at most
\* once, whatever the interleaving of the observer thread and the scan of the
\* existing files: no path is ever delivered more than once.
C28_PathDeliveredAtMostOnce ==
  \A path \in Paths : delivered[path] <= 1

\* a file with a watched extension that is in the watch directory and not empty
Waiting(path) ==
  HasWatchedExtension(path) /\ files[path].exists /\ files[path].size > 0

\* C29: while a PollingMonitor keeps running, every non-empty file with a
\* watched extension that is in the watch directory when monitoring starts, or
\* is written there later, during a scan included, is eventually passed to the
\* process callback.
C29_WaitingFileIsEventuallyDelivered ==
  \A path \in Paths : (is_running /\ Waiting(path)) ~> (delivered[path] > 0)

\* --------------------------------------------------------- claims on the retry
\* the waits retry_with_backoff allows: RETRY_DELAY * 2^attempt before the
\* attempts after the first
BackoffDelays(n) == [i \in 1..n |-> RETRY_DELAY * (2 ^ (i - 1))]

\* C30: process_file_with_retry calls process_file exactly once, whatever the
\* outcome: process_file turns every exception into False, so the retry sees
\* no exception, never waits and makes no second attempt; for a function that
\* raises, retry_with_backoff makes up to MAX_RETRIES attempts and waits
\* RETRY_DELAY * 2^attempt between them.
C30_ProcessFileIsCalledOnce ==
  /\ retry.func = "process_file" =>
       /\ retry.invocations <= 1
       /\ retry.attempt = 0
       /\ retry.sleeps = << >>
       /\ ~retry.raised
       /\ retry.pc = "done" =>
            /\ retry.invocations = 1
            /\ run.status = "returned"
            /\ retry.result = run.result
            /\ failed_count = run.failed
  /\ retry.func = "func" =>
       /\ retry.invocations <= MAX_RETRIES
       /\ retry.sleeps = BackoffDelays(Len(retry.sleeps))
       /\ Len(retry.sleeps) = IF retry.pc = "sleeping" THEN retry.attempt + 1
                              ELSE IF retry.pc = "done" THEN retry.invocations - 1
                              ELSE retry.attempt
       /\ retry.raised => retry.invocations = MAX_RETRIES /\ retry.sleeps = << 5, 10 >>

\* C30 witness: a call of process_file_with_retry is over after one call of
\* process_file in which validate_data raised; the result is False
C30_Witness ==
  /\ retry.pc = "done"
  /\ retry.func = "process_file"
  /\ retry.invocations = 1
  /\ run.validation.status = "raised"
  /\ run.failed = 1
  /\ ~retry.result

====
